---- MODULE Spec2Model ----
(***************************************************************************)
(* TrueNAS Compose Pilot: the Manager (scale_api_compose_pilot/manager.py) *)
(* and the AI Helper facade (scale_api_compose_pilot/ai_helper.py).        *)
(*                                                                         *)
(* Python strings are modelled as sequences of one-character strings, so   *)
(* that str.replace, str.split and int() are computed, not assumed.        *)
(* None is the one-element sequence NONE, which no Python string equals.   *)
(***************************************************************************)
EXTENDS Integers, Sequences, FiniteSets, TLC

VARIABLES
  ctorIn,     \* arguments and environment of a TrueNASDockerManager(...) call
  ctorOut,    \* what that call produced: the object's fields, or ValueError
  cvIn,       \* arguments of a _convert_compose_to_app_config(...) call
  cvOut,      \* <<>> before the call, then <<what the call returned or raised>>
  client,     \* self.client: "None", or the state of the Client object it holds
  connected,  \* self.connected
  pc,         \* "body" while a caller is inside `async with manager`, else "idle"
  live,       \* history: connect() has succeeded and close() was not called since
  authed,     \* history: authenticate() has succeeded at some time
  last,       \* the call just made on the Manager or the AI Helper and its outcome,
              \* until the caller takes it
  cliArgs,    \* args of the CLI delete command: [force, app_name]
  cliPc,      \* where delete_command stands
  cliMgr,     \* the Manager delete_command constructs: its client and flags
  cliAnswer,  \* <<>> until input() returned, then <<what the user typed>>
  cliLog,     \* what the command did, in order: "input", and every remote method sent
  cliCode,    \* <<>> until the command reached a return, then <<its exit code>>
  discIn,     \* what a discover_all_methods() call finds: [zeroconf, mdns, lan]
  discOut,    \* <<>> before the call, then <<the list it returned>>
  secDir,             \* the section's directory: [exists, files, dirs]
  section_status, \* the section's row of table section_status: "none" for no row
  file_counts,    \* the section's row of table file_counts: <<>> or <<[total_files, total_directories]>>
  runPc,          \* where the FileCounter or FileIndexer run under way stands, or "idle"
  runOut,         \* the run that ended last: who ran, how it ended, what it did
  sections,       \* SectionProcessor.sections: the sections 1..n, as a list
  max_threads,    \* config.thread_count
  poolPc,         \* where SectionProcessor.start() stands
  sections_queue, \* the local list sections_queue of _process_sections_with_pool
  active_threads, \* its local list active_threads: a thread is named by its section
  poolScan,       \* the threads the for loop over list(active_threads) has yet to test
  proc_status,    \* SectionProcessor.section_status
  threadAt,       \* where the thread of each section stands in _process_section
  startedTimes,   \* history: how many threads were started for each section
  wdTimeout,      \* the timeout argument of a watchdog_timer(timeout, name) call
  wdTimers,       \* the threading.Timer objects it made: [interval, armedAt, state];
                  \* the first is the handle returned to the caller
  wdDumps,        \* the stack dumps printed: the elapsed seconds of each
  wdCancelled,    \* the caller has called cancel() on the handle
  wdOp,           \* the monitored operation: the steps it has taken
  mainIn,         \* what main() meets: [dirs, db, discover_only, found]
  mainPc,         \* where main() stands
  dash,           \* the Web Dashboard: "off", "serving", "stopped" or "failed"
  mainRan,        \* history: the stages of the scan pipeline that have run
  idFile,         \* the file a FileIDGenerator was made for: [readable, content]
  idEdits,        \* how often the file was modified
  idLog,          \* the generate_file_id() calls so far: [content, id] of each
  sdIn,           \* a discover_sections call: [tree, max_depth], one base directory
  sdOut,          \* <<>> before the call, then <<the list it returned>>
  ixFiles,        \* the files of the section that os.walk has still to yield
  ixStore,        \* the tables: [inventory, conversion_queue, error_log]
  error_count,    \* FileIndexer.error_count
  ixLast,         \* the file processed last, what was raised and the state before
  ixStatus,       \* the section's status row
  amPc,           \* where add_metadata is: idle, run, check, move, sleep, done
  retry,          \* the loop variable of add_metadata: 0 .. max_retries - 1
  amOrig,         \* the file at self.file_path: original, rewritten or damaged
  amTemp,         \* temp_output: absent, small (below 1000 bytes) or valid
  amRet,          \* what add_metadata returned: unset, true or false
  amHist,         \* the attempts made: [run, temp, move] each
  dispLock,       \* StatusDisplay.lock: the thread that holds it, 0 when free
  dispAt,         \* per thread: [op, at, cur, renders] of the call it is in
  is_enabled,     \* StatusDisplay.is_enabled
  last_update_time, \* StatusDisplay.last_update_time
  now,            \* time.time()
  _connection,    \* db_utils._connection: 0 for None, or the number of a connection
  gcAt,           \* per thread: [op, at, got] of the db_utils call it is in
  opened,         \* the connections sqlite3.connect has returned so far
  sinceClose,     \* the connections opened since close_connections last ended
  closed          \* the connections that were closed

ctorVars == <<ctorIn, ctorOut>>
cvVars == <<cvIn, cvOut>>
mgrVars == <<client, connected, pc, live, authed, last>>
cliVars == <<cliArgs, cliPc, cliMgr, cliAnswer, cliLog, cliCode>>
\* the subsystems beside the Manager
discVars == <<discIn, discOut>>
secVars == <<secDir, section_status, file_counts, runPc, runOut>>
poolVars == <<sections, max_threads, poolPc, sections_queue, active_threads, poolScan,
              proc_status, threadAt, startedTimes>>
wdVars == <<wdTimeout, wdTimers, wdDumps, wdCancelled, wdOp>>
mainVars == <<mainIn, mainPc, dash, mainRan>>
idVars == <<idFile, idEdits, idLog>>
sdVars == <<sdIn, sdOut>>
ixVars == <<ixFiles, ixStore, error_count, ixLast, ixStatus>>
amVars == <<amPc, retry, amOrig, amTemp, amRet, amHist>>
dispVars == <<dispLock, dispAt, is_enabled, last_update_time, now>>
gcVars == <<_connection, gcAt, opened, sinceClose, closed>>
restVars == <<cliVars, discVars, secVars, poolVars, wdVars, mainVars, idVars, sdVars, ixVars, amVars, dispVars, gcVars>>
\* the subsystems beside the CLI
cliOthers == <<ctorVars, cvVars, mgrVars, discVars, secVars, poolVars, wdVars, mainVars, idVars, sdVars, ixVars, amVars, dispVars, gcVars>>
\* the subsystems beside discovery
discOthers == <<ctorVars, cvVars, mgrVars, cliVars, secVars, poolVars, wdVars, mainVars, idVars, sdVars, ixVars, amVars, dispVars, gcVars>>
\* the subsystems beside the section's Counter and Indexer
secOthers == <<ctorVars, cvVars, mgrVars, cliVars, discVars, poolVars, wdVars, mainVars, idVars, sdVars, ixVars, amVars, dispVars, gcVars>>
\* the subsystems beside the Section Processor
poolOthers == <<ctorVars, cvVars, mgrVars, cliVars, discVars, secVars, wdVars, mainVars, idVars, sdVars, ixVars, amVars, dispVars, gcVars>>
\* the subsystems beside the watchdog
wdOthers == <<ctorVars, cvVars, mgrVars, cliVars, discVars, secVars, poolVars, mainVars, idVars, sdVars, ixVars, amVars, dispVars, gcVars>>
\* the subsystems beside main()
mainOthers == <<ctorVars, cvVars, mgrVars, cliVars, discVars, secVars, poolVars, wdVars, idVars, sdVars, ixVars, amVars, dispVars, gcVars>>
\* the subsystems beside the File Identity generator
idOthers == <<ctorVars, cvVars, mgrVars, cliVars, discVars, secVars, poolVars, wdVars, mainVars, sdVars, ixVars, amVars, dispVars, gcVars>>
\* the subsystems beside section discovery
sdOthers == <<ctorVars, cvVars, mgrVars, cliVars, discVars, secVars, poolVars, wdVars, mainVars, idVars, ixVars, amVars, dispVars, gcVars>>
ixOthers == <<ctorVars, cvVars, mgrVars, cliVars, discVars, secVars, poolVars, wdVars, mainVars, idVars, sdVars, amVars, dispVars, gcVars>>
amOthers == <<ctorVars, cvVars, mgrVars, cliVars, discVars, secVars, poolVars, wdVars, mainVars, idVars, sdVars, ixVars, dispVars, gcVars>>
dispOthers == <<ctorVars, cvVars, mgrVars, cliVars, discVars, secVars, poolVars, wdVars, mainVars, idVars, sdVars, ixVars, amVars, gcVars>>
gcOthers == <<ctorVars, cvVars, mgrVars, cliVars, discVars, secVars, poolVars, wdVars, mainVars, idVars, sdVars, ixVars, amVars, dispVars>>
vars == <<ctorVars, cvVars, mgrVars, restVars>>

----------------------------------------------------------------------------
(* Python values *)

NONE == <<"<None>">>

\* Python truthiness of an Optional[str]: None and '' are falsy.
Falsy(x) == x = NONE \/ x = <<>>

StartsWith(s, p) == Len(s) >= Len(p) /\ SubSeq(s, 1, Len(p)) = p

\* s[n:]
Drop(s, n) == SubSeq(s, n + 1, Len(s))

\* old occurs somewhere in s (Python: old in s)
Contains(s, old) == \E i \in 1..(Len(s) - Len(old) + 1) : SubSeq(s, i, i + Len(old) - 1) = old

\* str.replace(old, ''): every non-overlapping occurrence, scanning left to right
RECURSIVE Replace(_, _)
Replace(s, old) ==
  IF s = <<>> THEN <<>>
  ELSE IF StartsWith(s, old) THEN Replace(Drop(s, Len(old)), old)
  ELSE <<Head(s)>> \o Replace(Tail(s), old)

HTTPS == <<"h", "t", "t", "p", "s", ":", "/", "/">>
HTTP == <<"h", "t", "t", "p", ":", "/", "/">>

----------------------------------------------------------------------------
(* TrueNASDockerManager.__init__ *)

\* os.getenv('TRUENAS_HOST', ''): the default '' when the variable is unset
GetenvHost(env) == IF env = NONE THEN <<>> ELSE env

\* host or os.getenv('TRUENAS_HOST', '')
HostOrEnv(host, envHost) == IF Falsy(host) THEN GetenvHost(envHost) ELSE host

\* (...).replace('https://', '').replace('http://', '')
CleanHostHttpsOnly(raw) == Replace(raw, HTTPS)
CleanHost(raw) == Replace(Replace(raw, HTTPS), HTTP)

\* api_key or os.getenv('TRUENAS_API_KEY')
KeyOrEnv(api_key, envKey) == IF Falsy(api_key) THEN envKey ELSE api_key

NoObject == [kind |-> "pending", msg |-> "", host |-> <<>>, api_key |-> NONE,
             client |-> "None", connected |-> FALSE]

\* The two checks of __init__ in the order the code makes them: host first.
Manager_init_KeyFirst(host, api_key, envHost, envKey) ==
  LET h == CleanHost(HostOrEnv(host, envHost))
      k == KeyOrEnv(api_key, envKey)
  IN  IF Falsy(k) THEN [NoObject EXCEPT !.kind = "ValueError", !.msg = "api_key"]
      ELSE IF Falsy(h) THEN [NoObject EXCEPT !.kind = "ValueError", !.msg = "host"]
      ELSE [NoObject EXCEPT !.kind = "ok", !.host = h, !.api_key = k]

Manager_init(host, api_key, envHost, envKey) ==
  LET h == CleanHost(HostOrEnv(host, envHost))
      k == KeyOrEnv(api_key, envKey)
  IN  IF Falsy(h) THEN [NoObject EXCEPT !.kind = "ValueError", !.msg = "host"]
      ELSE IF Falsy(k) THEN [NoObject EXCEPT !.kind = "ValueError", !.msg = "api_key"]
      ELSE [NoObject EXCEPT !.kind = "ok", !.host = h, !.api_key = k]

\* Bounded inputs: hosts are concatenations of at most MaxFrags fragments.
MaxFrags == 3

HostFrags == {HTTPS, HTTP, <<"n", "a", "s">>}

RECURSIVE HostsOf(_)
HostsOf(n) ==
  IF n = 0 THEN {<<>>}
  ELSE LET shorter == HostsOf(n - 1)
       IN  shorter \cup {f \o h : f \in HostFrags, h \in shorter}

HostParams == {NONE} \cup HostsOf(MaxFrags)
EnvHosts == {NONE, <<>>, <<"e", "n", "v">>, HTTP \o <<"e", "n", "v">>}
KeyParams == {NONE, <<>>, <<"k">>}
EnvKeys == {NONE, <<>>, <<"K">>}

CtorIdle == ctorIn = [host |-> NONE, api_key |-> NONE, envHost |-> NONE, envKey |-> NONE]
            /\ ctorOut = NoObject

CtorInit ==
  /\ ctorIn \in [host : HostParams, api_key : KeyParams, envHost : EnvHosts, envKey : EnvKeys]
  /\ ctorOut = NoObject

Construct ==
  /\ ctorOut.kind = "pending"
  /\ ctorOut' = Manager_init(ctorIn.host, ctorIn.api_key, ctorIn.envHost, ctorIn.envKey)
  /\ UNCHANGED <<ctorIn, cvVars, mgrVars, restVars>>


----------------------------------------------------------------------------
(* Claims about construction, checked under SpecCtor *)

CtorRaw == HostOrEnv(ctorIn.host, ctorIn.envHost)
CtorDone == ctorOut.kind # "pending"
NoHostAvailable == Falsy(ctorIn.host) /\ Falsy(GetenvHost(ctorIn.envHost))
NoKeyAvailable == Falsy(ctorIn.api_key) /\ Falsy(ctorIn.envKey)
SchemeFree(s) == ~Contains(s, HTTPS) /\ ~Contains(s, HTTP)
IsScheme(f) == f \in {HTTPS, HTTP}

\* s[len(prefix):] when s starts with 'https://' or 'http://', else s
StripLeadingScheme(s) ==
  IF StartsWith(s, HTTPS) THEN Drop(s, Len(HTTPS))
  ELSE IF StartsWith(s, HTTP) THEN Drop(s, Len(HTTP))
  ELSE s

RECURSIVE Flatten(_)
Flatten(fs) == IF fs = <<>> THEN <<>> ELSE Head(fs) \o Flatten(Tail(fs))

RECURSIVE FragSeqs(_)
FragSeqs(n) ==
  IF n = 0 THEN {<<>>}
  ELSE LET shorter == FragSeqs(n - 1)
       IN  shorter \cup {<<f>> \o fs : f \in HostFrags, fs \in shorter}

NotScheme(f) == ~IsScheme(f)

----------------------------------------------------------------------------
(* More Python values: optional dictionary keys, str.split, int() *)

\* dict.get of an optional key: <<>> when the key is absent, <<v>> when present
Absent == <<>>
Present(v) == <<v>>
IsPresent(o) == o # <<>>
ValueOf(o) == o[1]

COLON == ":"

\* index of the first c in s, 0 when there is none
FirstIndex(s, c) ==
  IF \E i \in 1..Len(s) : s[i] = c
  THEN CHOOSE i \in 1..Len(s) : s[i] = c /\ \A j \in 1..(i - 1) : s[j] # c
  ELSE 0

\* s.split(c): the list of the parts between every two c, never empty
RECURSIVE Split(_, _)
Split(s, c) ==
  LET i == FirstIndex(s, c)
  IN  IF i = 0 THEN <<s>>
      ELSE <<SubSeq(s, 1, i - 1)>> \o Split(Drop(s, i), c)

Digits == <<"0", "1", "2", "3", "4", "5", "6", "7", "8", "9">>
IsDigit(ch) == \E d \in 1..Len(Digits) : Digits[d] = ch
DigitVal(ch) == (CHOOSE d \in 1..Len(Digits) : Digits[d] = ch) - 1

Unsigned(s) == IF s # <<>> /\ s[1] \in {"+", "-"} THEN Tail(s) ELSE s

\* int(s) accepts an optional sign followed by at least one digit (the
\* strings of the model hold no whitespace and no underscore)
IsIntLiteral(s) ==
  LET u == Unsigned(s) IN u # <<>> /\ \A i \in 1..Len(u) : IsDigit(u[i])

RECURSIVE Magnitude(_)
Magnitude(u) ==
  IF u = <<>> THEN 0 ELSE 10 * Magnitude(SubSeq(u, 1, Len(u) - 1)) + DigitVal(u[Len(u)])

\* int(s) for a literal int() accepts; it raises ValueError for the others
ToInt(s) == IF s # <<>> /\ s[1] = "-" THEN 0 - Magnitude(Unsigned(s)) ELSE Magnitude(Unsigned(s))

----------------------------------------------------------------------------
(* TrueNASDockerManager._convert_compose_to_app_config                     *)
(*                                                                         *)
(* A Compose document is what yaml.safe_load returns for a mapping:        *)
(*   [services : optional of [null : BOOLEAN, items : Seq of service]]     *)
(* where null says the key is there with no value (YAML "services:"), and  *)
(* a service is [name, cfg] with cfg = [null, image, ports, environment,   *)
(* volumes, restart], every key optional. A ports or volumes entry is      *)
(* [isstr, s]: a string s, or a YAML scalar that is no string (an int      *)
(* such as 80) whose text is s.                                            *)

LATEST == <<"l", "a", "t", "e", "s", "t">>
RW == <<"r", "w">>

NoConfig == <<>>

Raised(kind, msg) == [kind |-> kind, msg |-> msg, config |-> NoConfig]
Returned(config) == [kind |-> "ok", msg |-> "", config |-> <<config>>]

\* image_parts[1] if len(image_parts) > 1 else 'latest'
ImageTagNoDefault(parts) == IF Len(parts) > 1 THEN parts[2] ELSE <<>>
ImageTag(parts) == IF Len(parts) > 1 THEN parts[2] ELSE LATEST

\* One ports entry: <<>> when it is skipped, <<forward>> when it is mapped,
\* "ValueError" when the unpacking or int() raises.
PortEntry(port) ==
  IF port.isstr /\ Contains(port.s, <<COLON>>)
  THEN LET parts == Split(port.s, COLON)
       IN  IF Len(parts) # 2 THEN [err |-> TRUE, fwd |-> <<>>]
           ELSE IF ~IsIntLiteral(parts[2]) \/ ~IsIntLiteral(parts[1])
                THEN [err |-> TRUE, fwd |-> <<>>]
                ELSE [err |-> FALSE,
                      fwd |-> <<[container_port |-> ToInt(parts[2]),
                                 host_port |-> ToInt(parts[1])]>>]
  ELSE [err |-> FALSE, fwd |-> <<>>]

\* the loop over ports: the first entry that raises ends the conversion
RECURSIVE ConvertPortsLenient(_)
ConvertPortsLenient(ports) ==
  IF ports = <<>> THEN [err |-> FALSE, fwd |-> <<>>]
  ELSE LET rest == ConvertPortsLenient(Tail(ports))
       IN  [err |-> FALSE, fwd |-> PortEntry(Head(ports)).fwd \o rest.fwd]

RECURSIVE ConvertPorts(_)
ConvertPorts(ports) ==
  IF ports = <<>> THEN [err |-> FALSE, fwd |-> <<>>]
  ELSE LET first == PortEntry(Head(ports))
       IN  IF first.err THEN [err |-> TRUE, fwd |-> <<>>]
           ELSE LET rest == ConvertPorts(Tail(ports))
                IN  [err |-> rest.err,
                     fwd |-> IF rest.err THEN <<>> ELSE first.fwd \o rest.fwd]

VolumeEntry(volume) ==
  IF volume.isstr /\ Contains(volume.s, <<COLON>>)
  THEN LET volume_parts == Split(volume.s, COLON)
       IN  IF Len(volume_parts) >= 2
           THEN <<[host_path |-> volume_parts[1],
                   container_path |-> volume_parts[2],
                   mode |-> IF Len(volume_parts) > 2 THEN volume_parts[3] ELSE RW]>>
           ELSE <<>>
  ELSE <<>>

RECURSIVE ConvertVolumes(_)
ConvertVolumes(volumes) ==
  IF volumes = <<>> THEN <<>>
  ELSE VolumeEntry(Head(volumes)) \o ConvertVolumes(Tail(volumes))

\* compose_data.get('services', {})
ServicesOf(compose_data) ==
  IF IsPresent(compose_data.services) THEN ValueOf(compose_data.services)
  ELSE [null |-> FALSE, items |-> <<>>]

\* service_config.get(key, default) for the keys with a default
GetOr(o, default) == IF IsPresent(o) THEN ValueOf(o) ELSE default

convert_compose_to_app_config(compose_data, app_name) ==
  LET services == ServicesOf(compose_data)
  IN  IF services.null THEN Raised("TypeError", "len")          \* len(None)
      ELSE IF Len(services.items) # 1 THEN Raised("DockerComposeError", "single-service")
      ELSE
        LET service_config == services.items[1].cfg
        IN  IF service_config.null THEN Raised("AttributeError", "get")   \* None.get
            ELSE
              LET image == GetOr(service_config.image, <<>>)
                  image_parts == Split(image, COLON)
                  ports == ConvertPorts(GetOr(service_config.ports, <<>>))
              IN  IF image = <<>> THEN Raised("DockerComposeError", "image")
                  ELSE IF ports.err THEN Raised("DockerComposeError", "port")
                  ELSE Returned(
                    [name |-> app_name,
                     image |-> [repository |-> image_parts[1],
                                tag |-> ImageTag(image_parts)],
                     port_forwards |-> ports.fwd,
                     environment |-> GetOr(service_config.environment, {}),
                     volumes |-> ConvertVolumes(GetOr(service_config.volumes, <<>>)),
                     restart_policy |-> "unless-stopped"])

----------------------------------------------------------------------------
(* Bounded Compose documents *)

StrEntry(s) == [isstr |-> TRUE, s |-> s]
IntEntry(s) == [isstr |-> FALSE, s |-> s]

RECURSIVE Join(_, _)
Join(parts, c) ==
  IF Len(parts) = 1 THEN parts[1] ELSE parts[1] \o <<c>> \o Join(Tail(parts), c)

\* the colon-separated parts a ports entry is made of
PortParts == {<<"8">>, <<"8", "0">>, <<"x">>}

\* a ports list holds at most MaxPortParts parts over all its entries
MaxPortParts == 4

RECURSIVE PartSeqs(_)
PartSeqs(k) ==
  IF k = 1 THEN {<<p>> : p \in PortParts}
  ELSE {<<p>> \o ps : p \in PortParts, ps \in PartSeqs(k - 1)}

\* the entries of k parts: 'p1:...:pk', and for k = 1 the YAML int 80
EntriesOf(k) ==
  {StrEntry(Join(ps, COLON)) : ps \in PartSeqs(k)}
    \cup (IF k = 1 THEN {IntEntry(<<"8", "0">>)} ELSE {})

RECURSIVE PortLists(_)
PortLists(budget) ==
  {<<>>} \cup UNION {{<<e>> \o rest : e \in EntriesOf(k), rest \in PortLists(budget - k)}
                       : k \in 1..budget}

Images ==
  {Absent, Present(<<>>), Present(<<"n">>), Present(<<"n", ":", "1">>),
   Present(<<"n", ":">>), Present(<<"r", ":", "5", "/", "a", ":", "t">>)}

VolumeLists ==
  {Absent,
   Present(<<StrEntry(<<"/", "h", ":", "/", "c">>),
             StrEntry(<<"/", "h", ":", "/", "c", ":", "r", "o">>)>>),
   Present(<<StrEntry(<<"v">>), IntEntry(<<"8">>)>>)}

Environments == {Absent, Present({<<"ENV", "prod">>})}
Restarts == {Absent, Present("always")}
AppNames == {"test-app", "other"}
ServiceNames == <<"webapp", "db", "cache", "proxy">>

NullCfg == [null |-> TRUE, image |-> Absent, ports |-> Absent, environment |-> Absent,
            volumes |-> Absent, restart |-> Absent]

Cfgs ==
  {NullCfg} \cup
  [null : {FALSE}, image : Images,
   ports : {Absent} \cup {Present(l) : l \in PortLists(MaxPortParts)},
   environment : Environments, volumes : VolumeLists, restart : Restarts]

\* what the services of a multi-service document look like does not matter
SiblingCfgs ==
  {NullCfg,
   [NullCfg EXCEPT !.null = FALSE, !.image = Present(<<"n", ":", "1">>)]}

\* a document of several services declares at most MaxServices of them
MaxServices == 2

Services(items) == Present([null |-> FALSE, items |-> items])

Docs ==
  {[services |-> Absent],
   [services |-> Present([null |-> TRUE, items |-> <<>>])],
   [services |-> Services(<<>>)]}
  \cup {[services |-> Services(<<[name |-> ServiceNames[1], cfg |-> c]>>)] : c \in Cfgs}
  \cup UNION {{[services |-> Services([i \in 1..n |-> [name |-> ServiceNames[i], cfg |-> f[i]]])]
                 : f \in [1..n -> SiblingCfgs]} : n \in 2..MaxServices}

CvIdle == cvIn = [doc |-> [services |-> Absent], name |-> "test-app"] /\ cvOut = <<>>

CvInit ==
  /\ cvIn \in [doc : Docs, name : AppNames]
  /\ cvOut = <<>>

Convert ==
  /\ cvOut = <<>>
  /\ cvOut' = <<convert_compose_to_app_config(cvIn.doc, cvIn.name)>>
  /\ UNCHANGED <<cvIn, ctorVars, mgrVars, restVars>>


----------------------------------------------------------------------------
(* The session: TrueNASDockerManager.connect, authenticate, call_api, close *)
(*                                                                         *)
(* A method is an operator from the Manager's state st = [client,          *)
(* connected, live, authed] and from what the transport does (its last     *)
(* parameters) to an outcome                                               *)
(*   [st, exc, val, sent, calls, oks]:                                     *)
(* the state after, the exception raised ("none" when it returns), the     *)
(* value returned, the requests handed to client.call with their answers,  *)
(* the Manager and Helper methods entered, and those that returned.        *)

NoExc == "none"

Returns(st, name, val, sent) ==
  [st |-> st, exc |-> NoExc, val |-> val, sent |-> sent, calls |-> <<name>>, oks |-> <<name>>]

Fails(st, name, exc, sent) ==
  [st |-> st, exc |-> exc, val |-> <<>>, sent |-> sent, calls |-> <<name>>, oks |-> <<>>]

\* nothing called
Quiet(st) ==
  [st |-> st, exc |-> NoExc, val |-> <<>>, sent |-> <<>>, calls |-> <<>>, oks |-> <<>>]

\* o1 then o2: the state, exception and value of o2, the trace of both
Then(o1, o2) ==
  [o2 EXCEPT !.sent = o1.sent \o @, !.calls = o1.calls \o @, !.oks = o1.oks \o @]

\* o is the body of method name
Entered(o, name) ==
  [o EXCEPT !.calls = <<name>> \o @,
            !.oks = IF o.exc = NoExc THEN @ \o <<name>> ELSE @]

\* what Client(uri=..., verify_ssl=False) and client.__enter__() can do
ConnectOutcomes == {"ok", "ctor_raises", "enter_raises"}

\* what client.call("auth.login_with_api_key", key) can do
LoginResponses == {"truthy", "falsy", "raises"}

\* what client.__exit__(None, None, None) can do: return, or raise with the
\* transport closed or left as it was
ExitOutcomes == {"ok", "raises_closed", "raises_open"}

RunningApp(n) == [name |-> n, state |-> "RUNNING"]
StoppedApp(n) == [name |-> n, state |-> "STOPPED"]

\* what client.call(method, ...) can do: raise, or return a value (for
\* app.query the list of apps)
AppLists ==
  {<<>>, <<RunningApp("test-app")>>, <<StoppedApp("other"), RunningApp("test-app")>>,
   <<RunningApp("other")>>}

RaisesResponse == [raises |-> TRUE, apps |-> <<>>]
CallResponses == {RaisesResponse} \cup {[raises |-> FALSE, apps |-> a] : a \in AppLists}

\* the result of a remote call that returns no list: raise, or return
MutateResponses == {RaisesResponse, [raises |-> FALSE, apps |-> <<>>]}

\* only an open transport answers; a Client that was never opened or was
\* closed raises
Answer(st, r) == IF st.client = "open" THEN r ELSE RaisesResponse
AnswerLogin(st, r) == IF st.client = "open" THEN r ELSE "raises"

\* one client.call(method, ...) and its answer
Request(method, raises, truthy, apps) ==
  [method |-> method, raises |-> raises, truthy |-> truthy, apps |-> apps]

\* the first lines of authenticate and call_api
NotConnected(st) == st.client = "None" \/ ~st.connected

connect(st, o) ==
  CASE o = "ok" ->
         Returns([st EXCEPT !.client = "open", !.connected = TRUE, !.live = TRUE],
                 "connect", <<>>, <<>>)
    [] o = "ctor_raises" ->
         Fails(st, "connect", "TrueNASConnectionError", <<>>)
    [] o = "enter_raises" ->
         Fails([st EXCEPT !.client = "unopened"], "connect", "TrueNASConnectionError", <<>>)

LOGIN == "auth.login_with_api_key"

authenticate(st, r) ==
  LET answer == AnswerLogin(st, r)
      sent == <<Request(LOGIN, answer = "raises", answer = "truthy", <<>>)>>
  IN  IF NotConnected(st)
      THEN Fails(st, "authenticate", "TrueNASConnectionError", <<>>)
      ELSE IF answer = "truthy"
           THEN Returns([st EXCEPT !.authed = TRUE], "authenticate", <<>>, sent)
           ELSE Fails(st, "authenticate", "TrueNASAuthenticationError", sent)

\* call_api without its first two lines
call_api_Unguarded(st, method, r) ==
  LET answer == Answer(st, r)
      sent == <<Request(method, answer.raises, FALSE, answer.apps)>>
  IN  IF answer.raises
      THEN Fails(st, "call_api", "TrueNASAPIError", sent)
      ELSE Returns(st, "call_api", answer.apps, sent)

call_api(st, method, r) ==
  LET answer == Answer(st, r)
      sent == <<Request(method, answer.raises, FALSE, answer.apps)>>
  IN  IF NotConnected(st)
      THEN Fails(st, "call_api", "TrueNASConnectionError", <<>>)
      ELSE IF answer.raises
           THEN Fails(st, "call_api", "TrueNASAPIError", sent)
           ELSE Returns(st, "call_api", answer.apps, sent)

\* close without its except and finally clauses
close_NoFinally(st, x) ==
  IF st.client = "None"
  THEN Returns([st EXCEPT !.live = FALSE], "close", <<>>, <<>>)
  ELSE IF x = "ok"
       THEN Returns([st EXCEPT !.client = "closed", !.connected = FALSE, !.live = FALSE],
                    "close", <<>>, <<>>)
       ELSE Fails([st EXCEPT !.client = IF x = "raises_open" THEN @ ELSE "closed",
                             !.live = FALSE],
                  "close", "Exception", <<>>)

close(st, x) ==
  IF st.client = "None"
  THEN Returns([st EXCEPT !.live = FALSE], "close", <<>>, <<>>)
  ELSE Returns([st EXCEPT !.client = IF x = "raises_open" THEN @ ELSE "closed",
                          !.connected = FALSE, !.live = FALSE],
               "close", <<>>, <<>>)

list_apps(st, r) == Entered(call_api(st, "app.query", r), "list_apps")

\* the first app of the list whose name is app_name: <<app>>, or <<>> for None
FirstNamed(apps, app_name) ==
  LET hits == SelectSeq(apps, LAMBDA app : app.name = app_name)
  IN  IF hits = <<>> THEN <<>> ELSE <<hits[1]>>

get_app_details(st, app_name, r) ==
  LET apps == list_apps(st, r)
  IN  Entered(IF apps.exc # NoExc THEN apps
              ELSE [apps EXCEPT !.val = FirstNamed(apps.val, app_name)],
              "get_app_details")

create_app(st, r) == Entered(call_api(st, "app.create", r), "create_app")
update_app(st, r) == Entered(call_api(st, "app.update", r), "update_app")
start_app(st, r) == Entered(call_api(st, "app.start", r), "start_app")
stop_app(st, r) == Entered(call_api(st, "app.stop", r), "stop_app")
delete_app(st, r) == Entered(call_api(st, "app.delete", r), "delete_app")

\* a Compose file, or a Compose string: it loads to a document or does not
NoDoc == [services |-> Absent]
Unloadable == [loads |-> FALSE, doc |-> NoDoc]
Loaded(doc) == [loads |-> TRUE, doc |-> doc]

\* the variant that submits whatever the conversion said
deploy_compose_stack_IgnoresConversion(st, file, app_name, rq, rm) ==
  LET existing_app == get_app_details(st, app_name, rq)
  IN  Entered(
        IF ~file.loads THEN Fails(st, "open", "DockerComposeError", <<>>)
        ELSE IF existing_app.exc # NoExc THEN existing_app
        ELSE IF existing_app.val # <<>>
             THEN Then(existing_app, update_app(existing_app.st, rm))
             ELSE Then(existing_app, create_app(existing_app.st, rm)),
        "deploy_compose_stack")

deploy_compose_stack(st, file, app_name, rq, rm) ==
  LET app_config == convert_compose_to_app_config(file.doc, app_name)
      existing_app == get_app_details(st, app_name, rq)
  IN  Entered(
        IF ~file.loads THEN Fails(st, "open", "DockerComposeError", <<>>)
        ELSE IF app_config.kind # "ok"
             THEN Fails(st, "_convert_compose_to_app_config", app_config.kind, <<>>)
        ELSE IF existing_app.exc # NoExc THEN existing_app
        ELSE IF existing_app.val # <<>>
             THEN Then(existing_app, update_app(existing_app.st, rm))
             ELSE Then(existing_app, create_app(existing_app.st, rm)),
        "deploy_compose_stack")

\* __aenter__: connect, then authenticate; the first exception ends it
aenter(st, o, rl) ==
  LET c == connect(st, o)
  IN  Entered(IF c.exc # NoExc THEN c ELSE Then(c, authenticate(c.st, rl)), "__aenter__")

\* __aexit__ that forgets to close
aexit_NoClose(st, x) == Entered(Quiet(st), "__aexit__")

\* __aexit__: close, whatever exc_type is; it returns None, so an exception
\* of the body goes on to the caller
aexit(st, x) == Entered(close(st, x), "__aexit__")

----------------------------------------------------------------------------
(* AIHelper: get_system_status, simple_deploy, app_operations *)

TrueNASErrors ==
  {"TrueNASConnectionError", "TrueNASAuthenticationError", "TrueNASAPIError",
   "DockerComposeError"}

\* f"TrueNAS Error: {e}" for the taxonomy's errors, f"Unexpected Error: {e}" otherwise
StatusError(exc) ==
  IF exc \in TrueNASErrors THEN <<"TrueNAS Error", exc>> ELSE <<"Unexpected Error", exc>>

Running(apps) == SelectSeq(apps, LAMBDA app : app.state = "RUNNING")

get_system_status(st, o, rl, rq, x) ==
  LET c == connect(st, o)
      a == authenticate(c.st, rl)
      l == list_apps(a.st, rq)
      tried == IF c.exc # NoExc THEN c
               ELSE IF a.exc # NoExc THEN Then(c, a)
               ELSE Then(Then(c, a), l)
      listed == tried.exc = NoExc
      result == [connected |-> c.exc = NoExc,
                 authenticated |-> c.exc = NoExc /\ a.exc = NoExc,
                 apps |-> IF listed THEN l.val ELSE <<>>,
                 app_count |-> IF listed THEN Len(l.val) ELSE 0,
                 running_apps |-> IF listed THEN Len(Running(l.val)) ELSE 0,
                 error |-> IF listed THEN <<>> ELSE StatusError(tried.exc)]
      finally == close(tried.st, x)
  IN  Entered([Then(tried, finally) EXCEPT !.val = <<result>>], "get_system_status")

simple_deploy(st, content, app_name, o, rl, rq, rm, x) ==
  LET result == [success |-> FALSE, app_name |-> app_name, action |-> "None", error |-> <<>>]
      mgr == aenter(st, o, rl)
      existing == get_app_details(mgr.st, app_name, rq)
      action == IF existing.val # <<>> THEN "updated" ELSE "created"
      app_config == convert_compose_to_app_config(content.doc, app_name)
      submit == IF existing.val # <<>> THEN update_app(existing.st, rm)
                ELSE create_app(existing.st, rm)
      body == IF existing.exc # NoExc THEN Then(mgr, existing)
              ELSE IF app_config.kind # "ok"
                   THEN Then(Then(mgr, existing),
                             Fails(existing.st, "_convert_compose_to_app_config",
                                   app_config.kind, <<>>))
                   ELSE Then(Then(mgr, existing), submit)
      exit == aexit(body.st, x)
      \* what reaches the except clause: the exception of __aexit__ if it
      \* raises, else the exception of the body
      caught == IF exit.exc # NoExc THEN exit.exc ELSE body.exc
  IN  Entered(
        IF ~content.loads
        THEN [Quiet(st) EXCEPT !.val = <<[result EXCEPT !.error = <<"YAMLError">>]>>]
        ELSE IF mgr.exc # NoExc
             THEN [mgr EXCEPT !.exc = NoExc, !.val = <<[result EXCEPT !.error = <<mgr.exc>>]>>]
             ELSE [Then(body, exit) EXCEPT
                     !.exc = NoExc,
                     !.val = <<[result EXCEPT
                                  !.success = (body.exc = NoExc),
                                  !.action = IF body.exc = NoExc THEN action ELSE "None",
                                  !.error = IF caught = NoExc THEN <<>> ELSE <<caught>>]>>],
        "simple_deploy")

\* one entry of the batch: the outcome of its call and its result record
OpResult(op, success, message, error) ==
  [app |-> op.app, action |-> op.action, success |-> success, message |-> message,
   error |-> error]

RunOp(st, op, r) ==
  LET call == CASE op.action = "start" -> start_app(st, r)
                [] op.action = "stop" -> stop_app(st, r)
                [] op.action = "delete" -> delete_app(st, r)
                [] op.action = "status" -> get_app_details(st, op.app, r)
                [] OTHER -> Quiet(st)
      message == CASE op.action = "start" -> "Started"
                   [] op.action = "stop" -> "Stopped"
                   [] op.action = "delete" -> "Deleted"
                   [] OTHER -> "state"
  IN  [call EXCEPT !.val =
         <<IF op.action \notin {"start", "stop", "delete", "status"}
           THEN OpResult(op, FALSE, "", <<"Unknown action">>)
           ELSE IF call.exc # NoExc THEN OpResult(op, FALSE, "", <<call.exc>>)
           ELSE IF op.action = "status" /\ call.val = <<>>
                THEN OpResult(op, FALSE, "", <<"not found">>)
                ELSE OpResult(op, TRUE, message, <<>>)>>,
         !.exc = NoExc]

\* the loop of the variant that gives up at the first failing entry
RECURSIVE RunOpsStopAtFailure(_, _, _)
RunOpsStopAtFailure(st, operations, rs) ==
  IF operations = <<>> THEN Quiet(st)
  ELSE LET first == RunOp(st, Head(operations), Head(rs))
           rest == RunOpsStopAtFailure(first.st, Tail(operations), Tail(rs))
       IN  IF first.val[1].success
           THEN [Then(first, rest) EXCEPT !.val = first.val \o rest.val]
           ELSE first

\* the for loop: every entry in turn, its result appended
RECURSIVE RunOps(_, _, _)
RunOps(st, operations, rs) ==
  IF operations = <<>> THEN Quiet(st)
  ELSE LET first == RunOp(st, Head(operations), Head(rs))
           rest == RunOps(first.st, Tail(operations), Tail(rs))
       IN  [Then(first, rest) EXCEPT !.val = first.val \o rest.val]

\* the outer except clause: one failed result for every requested entry
AllFailed(operations, exc) ==
  [i \in 1..Len(operations) |->
     OpResult(operations[i], FALSE, "", <<"Connection error", exc>>)]

app_operations(st, operations, o, rl, rs, x) ==
  LET mgr == aenter(st, o, rl)
      loop == RunOps(mgr.st, operations, rs)
      exit == aexit(loop.st, x)
      body == Then(Then(mgr, loop), exit)
  IN  Entered(
        IF mgr.exc # NoExc
        THEN [mgr EXCEPT !.exc = NoExc, !.val = AllFailed(operations, mgr.exc)]
        ELSE [body EXCEPT
                !.exc = NoExc,
                !.val = IF exit.exc # NoExc
                        THEN loop.val \o AllFailed(operations, exit.exc)
                        ELSE loop.val],
        "app_operations")

----------------------------------------------------------------------------
(* The Manager and the AI Helper in use: one action per public method *)

St == [client |-> client, connected |-> connected, live |-> live, authed |-> authed]

InitialSt == [client |-> "None", connected |-> FALSE, live |-> FALSE, authed |-> FALSE]

NoCall == [op |-> "none", args |-> <<>>, pre |-> InitialSt, out |-> Quiet(InitialSt)]

\* the state after construction: no client, not connected
MgrInit ==
  /\ client = "None"
  /\ connected = FALSE
  /\ pc = "idle"
  /\ live = FALSE
  /\ authed = FALSE
  /\ last = NoCall

\* no call is under way
Ready == last.op = "none"

\* the call op(args), made when no call is under way, ended as o
Commit(op, args, o) ==
  /\ Ready
  /\ \E out \in {o} :
       /\ client' = out.st.client
       /\ connected' = out.st.connected
       /\ live' = out.st.live
       /\ authed' = out.st.authed
       /\ last' = [op |-> op, args |-> args, pre |-> St, out |-> out]
  /\ UNCHANGED <<ctorVars, cvVars, restVars>>

\* the documents deployed: one that converts, and one of each kind that does not
OneService(cfg) == [services |-> Services(<<[name |-> ServiceNames[1], cfg |-> cfg]>>)]
ImageOnly == [NullCfg EXCEPT !.null = FALSE, !.image = Present(<<"n", ":", "1">>)]

DeployDocs ==
  {OneService([ImageOnly EXCEPT !.ports = Present(<<StrEntry(<<"8", ":", "8", "0">>)>>)]),
   OneService([ImageOnly EXCEPT !.ports = Present(<<StrEntry(<<"x", ":", "8", "0">>)>>)]),
   OneService([ImageOnly EXCEPT !.image = Absent]),
   [services |-> Services(<<[name |-> ServiceNames[1], cfg |-> ImageOnly],
                            [name |-> ServiceNames[2], cfg |-> ImageOnly]>>)],
   [services |-> Present([null |-> TRUE, items |-> <<>>])]}

ComposeFiles == {Unloadable} \cup {Loaded(d) : d \in DeployDocs}

\* An answer of the transport is enumerated only where a request waits for
\* it: elsewhere the one value default stands for all, which changes nothing
\* since no method reads it.
Needed(waits, answer, default) == waits \/ answer = default

\* a request made now would reach an open transport
Answers == ~NotConnected(St) /\ client = "open"

Connect ==
  /\ Ready
  /\ \E o \in ConnectOutcomes : Commit("connect", <<>>, connect(St, o))
  /\ UNCHANGED pc

Authenticate ==
  /\ Ready
  /\ \E rl \in LoginResponses :
       /\ Needed(Answers, rl, "raises")
       /\ Commit("authenticate", <<>>, authenticate(St, rl))
  /\ UNCHANGED pc

Close ==
  /\ Ready
  /\ \E x \in ExitOutcomes :
       /\ Needed(client # "None", x, "ok")
       /\ Commit("close", <<>>, close(St, x))
  /\ UNCHANGED pc

\* call_api(method, *args) with one of the remote methods
CallApi ==
  /\ Ready
  /\ \E method \in {"app.query", "app.start"}, r \in CallResponses :
       /\ Needed(Answers, r, RaisesResponse)
       /\ Commit("call_api", <<method>>, call_api(St, method, r))
  /\ UNCHANGED pc

ListApps ==
  /\ Ready
  /\ \E r \in CallResponses :
       /\ Needed(Answers, r, RaisesResponse)
       /\ Commit("list_apps", <<>>, list_apps(St, r))
  /\ UNCHANGED pc

GetAppDetails ==
  /\ Ready
  /\ \E n \in AppNames, r \in CallResponses :
       /\ Needed(Answers, r, RaisesResponse)
       /\ Commit("get_app_details", <<n>>, get_app_details(St, n, r))
  /\ UNCHANGED pc

CreateApp ==
  /\ Ready
  /\ \E r \in MutateResponses :
       /\ Needed(Answers, r, RaisesResponse)
       /\ Commit("create_app", <<>>, create_app(St, r))
  /\ UNCHANGED pc

UpdateApp ==
  /\ Ready
  /\ \E r \in MutateResponses :
       /\ Needed(Answers, r, RaisesResponse)
       /\ Commit("update_app", <<>>, update_app(St, r))
  /\ UNCHANGED pc

StartApp ==
  /\ Ready
  /\ \E r \in MutateResponses :
       /\ Needed(Answers, r, RaisesResponse)
       /\ Commit("start_app", <<>>, start_app(St, r))
  /\ UNCHANGED pc

StopApp ==
  /\ Ready
  /\ \E r \in MutateResponses :
       /\ Needed(Answers, r, RaisesResponse)
       /\ Commit("stop_app", <<>>, stop_app(St, r))
  /\ UNCHANGED pc

DeleteApp ==
  /\ Ready
  /\ \E r \in MutateResponses :
       /\ Needed(Answers, r, RaisesResponse)
       /\ Commit("delete_app", <<>>, delete_app(St, r))
  /\ UNCHANGED pc

\* the document of the file or string converts
Converts(file, n) == file.loads /\ convert_compose_to_app_config(file.doc, n).kind = "ok"

DeployComposeStack ==
  /\ Ready
  /\ \E file \in ComposeFiles, n \in AppNames, rq \in CallResponses, rm \in MutateResponses :
       /\ Needed(Answers, rq, RaisesResponse)
       /\ Needed(Answers /\ ~rq.raises, rm, RaisesResponse)
       /\ Commit("deploy_compose_stack", <<file, n>>,
                 deploy_compose_stack(St, file, n, rq, rm))
  /\ UNCHANGED pc

\* async with manager: entry; the body runs only if __aenter__ returned
WithEnter ==
  /\ Ready
  /\ pc = "idle"
  /\ \E o \in ConnectOutcomes, rl \in LoginResponses :
       LET entry == aenter(St, o, rl)
       IN  /\ Needed(o = "ok", rl, "raises")
           /\ Commit("__aenter__", <<>>, entry)
           /\ pc' = IF entry.exc = NoExc THEN "body" ELSE "idle"

\* async with manager: the body has returned (exc_type None) or raised
WithExit ==
  /\ Ready
  /\ pc = "body"
  /\ \E x \in ExitOutcomes, exc_type \in {"None", "Exception"} :
       /\ Needed(client # "None", x, "ok")
       /\ Commit("__aexit__", <<exc_type>>, aexit(St, x))
  /\ pc' = "idle"

GetSystemStatus ==
  /\ Ready
  /\ \E o \in ConnectOutcomes, rl \in LoginResponses, rq \in CallResponses, x \in ExitOutcomes :
       /\ Needed(o = "ok", rl, "raises")
       /\ Needed(o = "ok" /\ rl = "truthy", rq, RaisesResponse)
       /\ Needed(o # "ctor_raises" \/ client # "None", x, "ok")
       /\ Commit("get_system_status", <<>>, get_system_status(St, o, rl, rq, x))
  /\ UNCHANGED pc

SimpleDeploy ==
  /\ Ready
  /\ \E content \in ComposeFiles, n \in AppNames, o \in ConnectOutcomes,
        rl \in LoginResponses, rq \in CallResponses, rm \in MutateResponses,
        x \in ExitOutcomes :
       LET entered == content.loads /\ o = "ok" /\ rl = "truthy"
       IN  /\ Needed(content.loads, o, "ok")
           /\ Needed(content.loads /\ o = "ok", rl, "raises")
           /\ Needed(entered, rq, RaisesResponse)
           /\ Needed(entered /\ ~rq.raises, rm, RaisesResponse)
           /\ Needed(entered, x, "ok")
           /\ Commit("simple_deploy", <<content, n>>,
                     simple_deploy(St, content, n, o, rl, rq, rm, x))
  /\ UNCHANGED pc

\* a batch holds at most MaxOps entries
MaxOps == 2

OpActions == {"start", "stop", "delete", "status", "restart"}
OpEntries == [app : {"test-app"}, action : OpActions]
OpResponses == {RaisesResponse, [raises |-> FALSE, apps |-> <<>>],
                [raises |-> FALSE, apps |-> <<RunningApp("test-app")>>]}

\* the answers entry op can get: a list of apps answers only app.query
OpAnswerWaited(op, r) ==
  CASE op.action = "status" -> TRUE
    [] op.action \in {"start", "stop", "delete"} -> r \in MutateResponses
    [] OTHER -> r = RaisesResponse

AppOperations ==
  /\ Ready
  /\ \E k \in 0..MaxOps :
       \E operations \in [1..k -> OpEntries], rs \in [1..k -> OpResponses],
          o \in ConnectOutcomes, rl \in LoginResponses, x \in ExitOutcomes :
         LET entered == o = "ok" /\ rl = "truthy"
         IN  /\ Needed(o = "ok", rl, "raises")
             /\ \A i \in 1..k :
                  /\ Needed(entered, rs[i], RaisesResponse)
                  /\ OpAnswerWaited(operations[i], rs[i])
             /\ Needed(entered, x, "ok")
             /\ Commit("app_operations", <<operations>>,
                       app_operations(St, operations, o, rl, rs, x))
  /\ UNCHANGED pc

\* the caller has taken the outcome of its call and may make the next one
Return ==
  /\ last.op # "none"
  /\ last' = NoCall
  /\ UNCHANGED <<client, connected, pc, live, authed, ctorVars, cvVars, restVars>>

MgrNext ==
  \/ Return
  \/ Connect
  \/ Authenticate
  \/ Close
  \/ CallApi
  \/ ListApps
  \/ GetAppDetails
  \/ CreateApp
  \/ UpdateApp
  \/ StartApp
  \/ StopApp
  \/ DeleteApp
  \/ DeployComposeStack
  \/ WithEnter
  \/ WithExit
  \/ GetSystemStatus
  \/ SimpleDeploy
  \/ AppOperations

----------------------------------------------------------------------------
(* The CLI: delete_command *)

\* str.lower() on the letters the answers are made of
LowerChar(c) ==
  CASE c = "Y" -> "y" [] c = "E" -> "e" [] c = "S" -> "s" [] c = "N" -> "n"
    [] c = "O" -> "o" [] OTHER -> c

Lower(s) == [i \in 1..Len(s) |-> LowerChar(s[i])]

YES == <<"y", "e", "s">>

\* the variant that takes any answer beginning with y for a yes
Confirmed_AnyY(confirm) == confirm # <<>> /\ LowerChar(confirm[1]) = "y"

\* the negation of: confirm.lower() != 'yes'
Confirmed(confirm) == Lower(confirm) = YES

\* what the user can type at the prompt
Typed ==
  {YES, <<"Y", "E", "S">>, <<"Y", "e", "s">>, <<"n", "o">>, <<"y">>, <<>>,
   <<" ", "y", "e", "s">>, <<"y", "e", "s", "!">>, <<"N", "O">>, <<"y", "e">>}

\* the remote methods of the requests of an outcome, in order
MethodsSent(o) == [i \in 1..Len(o.sent) |-> o.sent[i].method]

CliIdle ==
  /\ cliArgs = [force |-> FALSE, app_name |-> "test-app"]
  /\ cliPc = "done"
  /\ cliMgr = InitialSt
  /\ cliAnswer = <<>>
  /\ cliLog = <<>>
  /\ cliCode = <<>>

CliInit ==
  /\ cliArgs \in [force : BOOLEAN, app_name : AppNames]
  /\ cliPc = "start"
  /\ cliMgr = InitialSt
  /\ cliAnswer = <<>>
  /\ cliLog = <<>>
  /\ cliCode = <<>>

\* async with TrueNASDockerManager() as manager: the constructor reads the
\* environment, then __aenter__; an exception of either is caught by the
\* except clauses, which return 1
DeleteEnter ==
  /\ cliPc = "start"
  /\ \E envHost \in EnvHosts, envKey \in EnvKeys, o \in ConnectOutcomes, rl \in LoginResponses :
       LET made == Manager_init(NONE, NONE, envHost, envKey)
           entry == aenter(InitialSt, o, rl)
       IN  IF made.kind # "ok"
           THEN /\ cliPc' = "done"
                /\ cliCode' = <<1>>
                /\ UNCHANGED <<cliMgr, cliLog>>
           ELSE /\ cliMgr' = entry.st
                /\ cliLog' = cliLog \o MethodsSent(entry)
                /\ IF entry.exc # NoExc
                   THEN cliPc' = "done" /\ cliCode' = <<1>>
                   ELSE /\ cliPc' = IF cliArgs.force THEN "delete" ELSE "prompt"
                        /\ UNCHANGED cliCode
  /\ UNCHANGED <<cliArgs, cliAnswer, cliOthers>>

\* confirm = input(...): it returns what was typed, or raises EOFError when
\* the input is at its end; anything but a yes returns 0
DeletePrompt ==
  /\ cliPc = "prompt"
  /\ cliLog' = Append(cliLog, "input")
  /\ \/ \E confirm \in Typed :
          /\ cliAnswer' = <<confirm>>
          /\ IF Confirmed(confirm)
             THEN cliPc' = "delete" /\ UNCHANGED cliCode
             ELSE cliPc' = "exit" /\ cliCode' = <<0>>
     \/ /\ cliPc' = "exit"
        /\ cliCode' = <<1>>
        /\ UNCHANGED cliAnswer
  /\ UNCHANGED <<cliArgs, cliMgr, cliOthers>>

\* result = await manager.delete_app(args.app_name), then return 0; an
\* exception is caught by the except clauses, which return 1
DeleteCall ==
  /\ cliPc = "delete"
  /\ \E r \in MutateResponses :
       LET deleted == delete_app(cliMgr, r)
       IN  /\ cliMgr' = deleted.st
           /\ cliLog' = cliLog \o MethodsSent(deleted)
           /\ cliCode' = IF deleted.exc = NoExc THEN <<0>> ELSE <<1>>
  /\ cliPc' = "exit"
  /\ UNCHANGED <<cliArgs, cliAnswer, cliOthers>>

\* leaving the with block by return or by exception: __aexit__
DeleteExit ==
  /\ cliPc = "exit"
  /\ \E x \in ExitOutcomes :
       LET left == aexit(cliMgr, x)
       IN  /\ cliMgr' = left.st
           /\ cliCode' = IF left.exc = NoExc THEN cliCode ELSE <<1>>
  /\ cliPc' = "done"
  /\ UNCHANGED <<cliArgs, cliAnswer, cliLog, cliOthers>>

CliNext == DeleteEnter \/ DeletePrompt \/ DeleteCall \/ DeleteExit

----------------------------------------------------------------------------
(* TrueNASDiscovery.discover_all_methods *)

\* a TrueNASSystem: its ip_address, discovery_method and confidence (in
\* tenths, so 10 is the default 1.0)
System(ip, method, confidence) ==
  [ip_address |-> ip, discovery_method |-> method, confidence |-> confidence]

\* for system in systems: if system.ip_address not in seen_ips: append, add
RECURSIVE AppendUnseen(_, _)
AppendUnseen(all_systems, systems) ==
  IF systems = <<>> THEN all_systems
  ELSE LET system == Head(systems)
           seen_ips == {all_systems[i].ip_address : i \in 1..Len(all_systems)}
       IN  AppendUnseen(IF system.ip_address \notin seen_ips
                        THEN Append(all_systems, system)
                        ELSE all_systems,
                        Tail(systems))

\* list.sort(key=lambda s: s.confidence, reverse=True): a stable sort, equal
\* keys keep their order
RECURSIVE InsertByConfidence(_, _)
InsertByConfidence(sorted, system) ==
  IF sorted = <<>> THEN <<system>>
  ELSE IF Head(sorted).confidence >= system.confidence
       THEN <<Head(sorted)>> \o InsertByConfidence(Tail(sorted), system)
       ELSE <<system>> \o sorted

RECURSIVE SortByConfidence(_)
SortByConfidence(systems) ==
  IF systems = <<>> THEN <<>>
  ELSE InsertByConfidence(SortByConfidence(SubSeq(systems, 1, Len(systems) - 1)),
                          systems[Len(systems)])

\* mdns is what discover_systems() returns, lan what scan_lan_for_truenas()
\* returns
discover_all_methods(zeroconf_available, mdns, lan) ==
  LET fromMdns == IF zeroconf_available THEN AppendUnseen(<<>>, mdns) ELSE <<>>
  IN  SortByConfidence(AppendUnseen(fromMdns, lan))

\* each method reports at most MaxSystems systems
MaxSystems == 2

IPs == {"10.0.0.1", "10.0.0.2"}
Confidences == {6, 10}

SystemLists(method) ==
  UNION {[1..n -> {System(ip, method, c) : ip \in IPs, c \in Confidences}] : n \in 0..MaxSystems}

DiscIdle ==
  /\ discIn = [zeroconf |-> FALSE, mdns |-> <<>>, lan |-> <<>>]
  /\ discOut = <<<<>>>>

DiscInit ==
  /\ discIn \in [zeroconf : BOOLEAN, mdns : SystemLists("mDNS"), lan : SystemLists("LAN_scan")]
  /\ discOut = <<>>

\* without zeroconf, discover_systems is not called and nothing comes by mDNS
DiscoverAllMethods ==
  /\ discOut = <<>>
  /\ discOut' = <<discover_all_methods(discIn.zeroconf, discIn.mdns, discIn.lan)>>
  /\ UNCHANGED <<discIn, discOthers>>

----------------------------------------------------------------------------
(* FileCounter.run and FileIndexer.run on one section                      *)
(*                                                                         *)
(* Every execute_query can raise sqlite3.Error; the parameter ok of a step *)
(* says that its queries did not. One run is under way at a time.          *)

\* the status values for which _is_section_counted returns True
CountedStatuses == {"counted", "indexing", "completed"}

\* _mark_section_status without the write
mark_section_status_Dropped(current, status, ok) == current

\* _mark_section_status: the row after it; an exception of the database is
\* logged and swallowed, and the row stays as it was
mark_section_status(current, status, ok) == IF ok THEN status ELSE current

\* _is_section_counted: False when a query raises
is_section_counted(ok) ==
  ok /\ (section_status \in CountedStatuses \/ file_counts # <<>>)

\* _get_existing_counts: (0, 0) when there is no row or the query raises
get_existing_counts(ok) ==
  IF ok /\ file_counts # <<>>
  THEN <<file_counts[1].total_files, file_counts[1].total_directories>>
  ELSE <<0, 0>>

\* the variant that takes a counted section for indexed
is_section_indexed_Counted(ok) == ok /\ section_status \in {"counted", "completed"}

\* _is_section_indexed: False when the query raises
is_section_indexed(ok) == ok /\ section_status = "completed"

\* what os.walk finds: nothing when the path does not exist
FilesWalked == IF secDir.exists THEN secDir.files ELSE 0

\* _get_total_files: the stored total_files, or a direct count when there
\* is no row or the query raises
get_total_files(ok) ==
  IF ok /\ file_counts # <<>> THEN file_counts[1].total_files ELSE FilesWalked

\* a section holds at most MaxFiles files and MaxDirs directories
MaxFiles == 2
MaxDirs == 1

\* a run: who ran, whether it has ended and raised, the value returned, the
\* rows before it (pre, had), whether its status query and its query for
\* the stored counts returned (lookup, lookupCounts), whether it skipped,
\* walked the directory, how many files it processed, and whether its last
\* status write was stored
NoRun == [who |-> "none", ended |-> FALSE, raised |-> FALSE, val |-> <<>>,
          pre |-> "none", had |-> <<>>, lookup |-> FALSE, lookupCounts |-> FALSE,
          skipped |-> FALSE, walked |-> FALSE, processed |-> 0, marked |-> FALSE]

\* a run of who begins; ok says that its status query returned
Begun(who, ok) ==
  [NoRun EXCEPT !.who = who, !.pre = section_status, !.had = file_counts, !.lookup = ok]

SecIdle ==
  /\ secDir = [exists |-> FALSE, files |-> 0, dirs |-> 0]
  /\ section_status = "none"
  /\ file_counts = <<>>
  /\ runPc = "idle"
  /\ runOut = NoRun

\* a freshly discovered section has no status row, or is pending
SecInit ==
  /\ secDir \in [exists : BOOLEAN, files : 0..MaxFiles, dirs : 0..MaxDirs]
  /\ section_status \in {"none", "pending"}
  /\ file_counts = <<>>
  /\ runPc = "idle"
  /\ runOut = NoRun

\* FileCounter.run, lines 52-56: the section counts as counted and the
\* stored counts are returned
CounterSkip ==
  /\ runPc = "idle"
  /\ \E ok \in BOOLEAN, okCounts \in BOOLEAN :
       /\ is_section_counted(ok)
       /\ runOut' = [Begun("counter", ok) EXCEPT !.ended = TRUE, !.skipped = TRUE,
                                                !.lookupCounts = okCounts,
                                                !.val = get_existing_counts(okCounts)]
  /\ UNCHANGED <<secDir, section_status, file_counts, runPc, secOthers>>

\* FileCounter.run, lines 52-60: not counted, so the status is marked counting
CounterBegin ==
  /\ runPc = "idle"
  /\ \E ok \in BOOLEAN, okMark \in BOOLEAN :
       /\ ~is_section_counted(ok)
       /\ section_status' = mark_section_status(section_status, "counting", okMark)
       /\ runOut' = Begun("counter", ok)
  /\ runPc' = "count_files"
  /\ UNCHANGED <<secDir, file_counts, secOthers>>

\* _count_files: FileNotFoundError when the path does not exist; the walk
\* can fail on its way
CounterWalk ==
  /\ runPc = "count_files"
  /\ \E walks \in BOOLEAN :
       IF secDir.exists /\ walks
       THEN /\ runOut' = [runOut EXCEPT !.walked = TRUE, !.val = <<secDir.files, secDir.dirs>>]
            /\ runPc' = "save_results"
       ELSE /\ runOut' = [runOut EXCEPT !.walked = secDir.exists]
            /\ runPc' = "counter_except"
  /\ UNCHANGED <<secDir, section_status, file_counts, secOthers>>

\* _save_results, which raises what the database raises
CounterSave ==
  /\ runPc = "save_results"
  /\ \E ok \in BOOLEAN :
       IF ok
       THEN /\ file_counts' = <<[total_files |-> runOut.val[1],
                                 total_directories |-> runOut.val[2]]>>
            /\ runPc' = "mark_counted"
       ELSE /\ runPc' = "counter_except"
            /\ UNCHANGED file_counts
  /\ UNCHANGED <<secDir, section_status, runOut, secOthers>>

\* FileCounter.run, lines 70-80: mark counted and return the totals
CounterFinish ==
  /\ runPc = "mark_counted"
  /\ \E ok \in BOOLEAN :
       /\ section_status' = mark_section_status(section_status, "counted", ok)
       /\ runOut' = [runOut EXCEPT !.ended = TRUE, !.marked = ok]
  /\ runPc' = "idle"
  /\ UNCHANGED <<secDir, file_counts, secOthers>>

\* FileCounter.run, lines 82-88: mark error and re-raise
CounterExcept ==
  /\ runPc = "counter_except"
  /\ \E ok \in BOOLEAN :
       /\ section_status' = mark_section_status(section_status, "error", ok)
       /\ runOut' = [runOut EXCEPT !.ended = TRUE, !.raised = TRUE, !.val = <<>>, !.marked = ok]
  /\ runPc' = "idle"
  /\ UNCHANGED <<secDir, file_counts, secOthers>>

\* FileIndexer.run, lines 64-66: the section is completed, nothing is done
IndexerSkip ==
  /\ runPc = "idle"
  /\ \E ok \in BOOLEAN :
       /\ is_section_indexed(ok)
       /\ runOut' = [Begun("indexer", ok) EXCEPT !.ended = TRUE, !.skipped = TRUE]
  /\ UNCHANGED <<secDir, section_status, file_counts, runPc, secOthers>>

\* FileIndexer.run, lines 69-72 and 99-100: no files to process, the run
\* returns with a warning
IndexerEmpty ==
  /\ runPc = "idle"
  /\ \E ok \in BOOLEAN, okTotal \in BOOLEAN :
       /\ ~is_section_indexed(ok)
       /\ get_total_files(okTotal) = 0
       /\ runOut' = [Begun("indexer", ok) EXCEPT !.ended = TRUE]
  /\ UNCHANGED <<secDir, section_status, file_counts, runPc, secOthers>>

\* FileIndexer.run, lines 69-77: files to process, the status is marked
\* indexing; get_connection can raise
IndexerBegin ==
  /\ runPc = "idle"
  /\ \E ok \in BOOLEAN, okTotal \in BOOLEAN, okMark \in BOOLEAN, connects \in BOOLEAN :
       /\ ~is_section_indexed(ok)
       /\ get_total_files(okTotal) > 0
       /\ section_status' = mark_section_status(section_status, "indexing", okMark)
       /\ runPc' = IF connects THEN "process_files" ELSE "indexer_except"
       /\ runOut' = Begun("indexer", ok)
  /\ UNCHANGED <<secDir, file_counts, secOthers>>

\* _process_files: every file of the walk; an exception of one file is
\* caught, one of the walk or of _record_error escapes the loop
IndexerProcess ==
  /\ runPc = "process_files"
  /\ \E n \in 0..FilesWalked :
       /\ runOut' = [runOut EXCEPT !.walked = TRUE, !.processed = n]
       /\ runPc' = IF n = FilesWalked THEN "mark_indexed" ELSE "indexer_except"
  /\ UNCHANGED <<secDir, section_status, file_counts, secOthers>>

\* _mark_section_as_indexed, and the run returns
IndexerFinish ==
  /\ runPc = "mark_indexed"
  /\ \E ok \in BOOLEAN :
       /\ section_status' = mark_section_status(section_status, "completed", ok)
       /\ runOut' = [runOut EXCEPT !.ended = TRUE, !.marked = ok]
  /\ runPc' = "idle"
  /\ UNCHANGED <<secDir, file_counts, secOthers>>

\* FileIndexer.run, lines 102-108: mark error and re-raise
IndexerExcept ==
  /\ runPc = "indexer_except"
  /\ \E ok \in BOOLEAN :
       /\ section_status' = mark_section_status(section_status, "error", ok)
       /\ runOut' = [runOut EXCEPT !.ended = TRUE, !.raised = TRUE, !.marked = ok]
  /\ runPc' = "idle"
  /\ UNCHANGED <<secDir, file_counts, secOthers>>

SecNext ==
  \/ CounterSkip
  \/ CounterBegin
  \/ CounterWalk
  \/ CounterSave
  \/ CounterFinish
  \/ CounterExcept
  \/ IndexerSkip
  \/ IndexerEmpty
  \/ IndexerBegin
  \/ IndexerProcess
  \/ IndexerFinish
  \/ IndexerExcept

----------------------------------------------------------------------------
(* SectionProcessor.start: _process_sections_with_pool and _process_section *)
(*                                                                         *)
(* The sections are distinct paths, numbered 1..n, and a thread is named   *)
(* by the section it was started for. The main thread and the worker       *)
(* threads interleave at every step.                                       *)

MaxSections == 3
MaxThreads == 2
SectionIds == 1..MaxSections

RECURSIVE Upto(_)
\* the list 1, ..., n
Upto(n) == IF n = 0 THEN <<>> ELSE Append(Upto(n - 1), n)

RECURSIVE Without(_, _)
\* list.remove(x) on a list that holds x at most once
Without(list, x) ==
  IF list = <<>> THEN <<>>
  ELSE IF Head(list) = x THEN Tail(list)
  ELSE <<Head(list)>> \o Without(Tail(list), x)

\* the start loop lets every section start at once
HasRoom_Always(threads, limit) == TRUE

\* len(active_threads) < max_threads
HasRoom(threads, limit) == Len(threads) < limit

\* a raising run leaves the section In Progress
Outcome_Silent(raised) == IF raised THEN "In Progress" ELSE "Completed"

\* the status _process_section stores after its try block
Outcome(raised) == IF raised THEN "Error" ELSE "Completed"

\* thread.is_alive()
is_alive(t) == threadAt[t] \in {"started", "counter", "indexer"}

PoolIdle ==
  /\ sections = <<>>
  /\ max_threads = 1
  /\ poolPc = "returned"
  /\ sections_queue = <<>>
  /\ active_threads = <<>>
  /\ poolScan = <<>>
  /\ proc_status = [t \in SectionIds |-> "none"]
  /\ threadAt = [t \in SectionIds |-> "none"]
  /\ startedTimes = [t \in SectionIds |-> 0]

\* SectionProcessor(sections, logger, config) has been constructed
PoolInit ==
  /\ \E n \in 0..MaxSections : sections = Upto(n)
  /\ max_threads \in 0..MaxThreads
  /\ poolPc = "constructed"
  /\ sections_queue = <<>>
  /\ active_threads = <<>>
  /\ poolScan = <<>>
  /\ proc_status = [t \in SectionIds |-> IF t <= Len(sections) THEN "Pending" ELSE "none"]
  /\ threadAt = [t \in SectionIds |-> "none"]
  /\ startedTimes = [t \in SectionIds |-> 0]

\* start() enters _process_sections_with_pool
ProcessorStart ==
  /\ poolPc = "constructed"
  /\ poolPc' = "while"
  /\ sections_queue' = sections
  /\ active_threads' = <<>>
  /\ UNCHANGED <<sections, max_threads, poolScan, proc_status, threadAt, startedTimes>>
  /\ UNCHANGED poolOthers

\* while sections_queue or active_threads
PoolWhile ==
  /\ poolPc = "while"
  /\ IF sections_queue # <<>> \/ active_threads # <<>>
     THEN poolPc' = "reap" /\ poolScan' = active_threads
     ELSE poolPc' = "returned" /\ poolScan' = poolScan
  /\ UNCHANGED <<sections, max_threads, sections_queue, active_threads, proc_status,
                 threadAt, startedTimes>>
  /\ UNCHANGED poolOthers

\* one turn of the for loop: a thread that is not alive is removed
PoolReap ==
  /\ poolPc = "reap"
  /\ poolScan # <<>>
  /\ poolScan' = Tail(poolScan)
  /\ active_threads' = IF is_alive(Head(poolScan)) THEN active_threads
                       ELSE Without(active_threads, Head(poolScan))
  /\ UNCHANGED <<sections, max_threads, poolPc, sections_queue, proc_status, threadAt,
                 startedTimes>>
  /\ UNCHANGED poolOthers

\* the for loop is over: the counts are logged under the lock
PoolTrack ==
  /\ poolPc = "reap"
  /\ poolScan = <<>>
  /\ poolPc' = "spawn"
  /\ UNCHANGED <<sections, max_threads, sections_queue, active_threads, poolScan,
                 proc_status, threadAt, startedTimes>>
  /\ UNCHANGED poolOthers

\* one turn of the inner while loop: the next section gets its thread
PoolSpawn ==
  /\ poolPc = "spawn"
  /\ HasRoom(active_threads, max_threads) /\ sections_queue # <<>>
  /\ sections_queue' = Tail(sections_queue)
  /\ active_threads' = Append(active_threads, Head(sections_queue))
  /\ threadAt' = [threadAt EXCEPT ![Head(sections_queue)] = "started"]
  /\ startedTimes' = [startedTimes EXCEPT ![Head(sections_queue)] = @ + 1]
  /\ UNCHANGED <<sections, max_threads, poolPc, poolScan, proc_status>>
  /\ UNCHANGED poolOthers

\* the inner while loop is over: time.sleep(0.5)
PoolSleep ==
  /\ poolPc = "spawn"
  /\ ~(HasRoom(active_threads, max_threads) /\ sections_queue # <<>>)
  /\ poolPc' = "while"
  /\ UNCHANGED <<sections, max_threads, sections_queue, active_threads, poolScan,
                 proc_status, threadAt, startedTimes>>
  /\ UNCHANGED poolOthers

\* the thread of section t stores In Progress under the lock
SectionEnter(t) ==
  /\ threadAt[t] = "started"
  /\ proc_status' = [proc_status EXCEPT ![t] = "In Progress"]
  /\ threadAt' = [threadAt EXCEPT ![t] = "counter"]
  /\ UNCHANGED <<sections, max_threads, poolPc, sections_queue, active_threads, poolScan,
                 startedTimes>>
  /\ UNCHANGED poolOthers

\* FileCounter(...).run() returns or raises
SectionCount(t) ==
  /\ threadAt[t] = "counter"
  /\ \E raised \in BOOLEAN :
       IF raised
       THEN /\ proc_status' = [proc_status EXCEPT ![t] = Outcome(TRUE)]
            /\ threadAt' = [threadAt EXCEPT ![t] = "finished"]
       ELSE /\ proc_status' = proc_status
            /\ threadAt' = [threadAt EXCEPT ![t] = "indexer"]
  /\ UNCHANGED <<sections, max_threads, poolPc, sections_queue, active_threads, poolScan,
                 startedTimes>>
  /\ UNCHANGED poolOthers

\* FileIndexer(...).run() returns or raises, and the thread ends
SectionIndex(t) ==
  /\ threadAt[t] = "indexer"
  /\ \E raised \in BOOLEAN :
       proc_status' = [proc_status EXCEPT ![t] = Outcome(raised)]
  /\ threadAt' = [threadAt EXCEPT ![t] = "finished"]
  /\ UNCHANGED <<sections, max_threads, poolPc, sections_queue, active_threads, poolScan,
                 startedTimes>>
  /\ UNCHANGED poolOthers

\* the main thread, in start()
PoolMain ==
  \/ ProcessorStart
  \/ PoolWhile
  \/ PoolReap
  \/ PoolTrack
  \/ PoolSpawn
  \/ PoolSleep

\* the thread of section t, in _process_section
SectionThread(t) ==
  \/ SectionEnter(t)
  \/ SectionCount(t)
  \/ SectionIndex(t)

\* how many sections have the status v
CountOf(v) == Cardinality({t \in 1..Len(sections) : proc_status[t] = v})

\* a summary that leaves the pending sections out
get_status_summary_NoPending ==
  [total |-> Len(sections), completed |-> CountOf("Completed"),
   in_progress |-> CountOf("In Progress"), pending |-> 0, failed |-> CountOf("Error")]

\* get_status_summary(), called at this moment: it reads section_status
\* under the lock that every writer of a status holds
get_status_summary ==
  [total |-> Len(sections), completed |-> CountOf("Completed"),
   in_progress |-> CountOf("In Progress"), pending |-> CountOf("Pending"),
   failed |-> CountOf("Error")]

PoolNext ==
  \/ PoolMain
  \/ \E t \in SectionIds : SectionThread(t)

----------------------------------------------------------------------------
(* main.py: watchdog_timer                                                 *)
(*                                                                         *)
(* Time is in seconds since start_time. A threading.Timer runs its         *)
(* function some seconds after its interval has passed, never before.      *)

Timeouts == {30, 600}
RearmInterval == 60
MaxLag == 2
MaxDumps == 3
MaxOpSteps == 2

Timer(interval, armedAt) == [interval |-> interval, armedAt |-> armedAt, state |-> "armed"]

\* timer.cancel() on the handle watchdog_timer returned: the first timer
cancel(list) ==
  [k \in 1..Len(list) |->
     IF k = 1 /\ list[k].state = "armed"
     THEN [list[k] EXCEPT !.state = "cancelled"] ELSE list[k]]

WdIdle ==
  /\ wdTimeout = 0
  /\ wdTimers = <<>>
  /\ wdDumps = <<>>
  /\ wdCancelled = TRUE
  /\ wdOp = MaxOpSteps

\* watchdog_timer(timeout, operation_name) has returned its handle
WdInit ==
  /\ wdTimeout \in Timeouts
  /\ wdTimers = <<Timer(wdTimeout, 0)>>
  /\ wdDumps = <<>>
  /\ wdCancelled = FALSE
  /\ wdOp = 0

\* check_timeout runs on the thread of timer k
CheckTimeout(k) ==
  /\ k \in DOMAIN wdTimers
  /\ wdTimers[k].state = "armed"
  /\ Len(wdDumps) < MaxDumps
  /\ \E lag \in 1..MaxLag :
       LET elapsed == wdTimers[k].armedAt + wdTimers[k].interval + lag
           fired == [wdTimers EXCEPT ![k].state = "fired"]
       IN  IF elapsed > wdTimeout
           THEN /\ wdDumps' = Append(wdDumps, elapsed)
                /\ wdTimers' = Append(fired, Timer(RearmInterval, elapsed))
           ELSE /\ wdDumps' = wdDumps
                /\ wdTimers' = fired
  /\ UNCHANGED <<wdTimeout, wdCancelled, wdOp>>
  /\ UNCHANGED wdOthers

\* the caller calls cancel() on the handle
WdCancel ==
  /\ ~wdCancelled
  /\ wdCancelled' = TRUE
  /\ wdTimers' = cancel(wdTimers)
  /\ UNCHANGED <<wdTimeout, wdDumps, wdOp>>
  /\ UNCHANGED wdOthers

\* the monitored operation takes a step
WdOperation ==
  /\ wdOp < MaxOpSteps
  /\ wdOp' = wdOp + 1
  /\ UNCHANGED <<wdTimeout, wdTimers, wdDumps, wdCancelled>>
  /\ UNCHANGED wdOthers

WdNext ==
  \/ \E k \in 1..(MaxDumps + 1) : CheckTimeout(k)
  \/ WdCancel
  \/ WdOperation

----------------------------------------------------------------------------
(* main.py: main(), and web/app.py: start_server                           *)

MaxFound == 2

MainIdle ==
  /\ mainIn = [dirs |-> FALSE, db |-> "ok", discover_only |-> FALSE, found |-> 0]
  /\ mainPc = "exited"
  /\ dash = "off"
  /\ mainRan = <<>>

\* main() is entered
MainInit ==
  /\ mainIn \in [dirs : BOOLEAN, db : {"ok", "false", "raises"},
                 discover_only : BOOLEAN, found : 0..MaxFound]
  /\ mainPc = "start"
  /\ dash = "off"
  /\ mainRan = <<>>

\* arguments, configuration, the data directories that exist
MainBegin ==
  /\ mainPc = "start"
  /\ mainPc' = IF mainIn.dirs THEN "init_db" ELSE "exited"
  /\ UNCHANGED <<mainIn, dash, mainRan>>
  /\ UNCHANGED mainOthers

\* initialize_database(config) returns True or False, or raises
MainInitDb ==
  /\ mainPc = "init_db"
  /\ mainPc' = IF mainIn.db = "ok" THEN "start_server" ELSE "exited"
  /\ UNCHANGED <<mainIn, dash, mainRan>>
  /\ UNCHANGED mainOthers

\* start_server() calls uvicorn.run(app, ...) on the calling thread: the
\* server starts and the call stays inside it, or it cannot start (the port
\* cannot be bound) and the process exits
MainStartServer ==
  /\ mainPc = "start_server"
  /\ \E starts \in BOOLEAN :
       IF starts THEN mainPc' = "in_start_server" /\ dash' = "serving"
       ELSE mainPc' = "exited" /\ dash' = "failed"
  /\ UNCHANGED <<mainIn, mainRan>>
  /\ UNCHANGED mainOthers

\* the server is shut down from outside: uvicorn.run returns to main(), or
\* hands the signal on to it
ServerStops ==
  /\ mainPc = "in_start_server"
  /\ dash' = "stopped"
  /\ \E returns \in BOOLEAN : mainPc' = IF returns THEN "discover" ELSE "exited"
  /\ UNCHANGED <<mainIn, mainRan>>
  /\ UNCHANGED mainOthers

\* discover_with_fallback, and the discover-only mode
MainDiscover ==
  /\ mainPc = "discover"
  /\ mainRan' = Append(mainRan, "discover")
  /\ mainPc' = IF mainIn.found = 0 \/ mainIn.discover_only THEN "exited" ELSE "persist"
  /\ UNCHANGED <<mainIn, dash>>
  /\ UNCHANGED mainOthers

\* the sections are stored: execute_query may raise, which ends main()
MainPersist ==
  /\ mainPc = "persist"
  /\ mainRan' = Append(mainRan, "persist")
  /\ \E ok \in BOOLEAN : mainPc' = IF ok THEN "process" ELSE "exited"
  /\ UNCHANGED <<mainIn, dash>>
  /\ UNCHANGED mainOthers

\* process_sections_sequentially, whose exceptions are logged
MainProcess ==
  /\ mainPc = "process"
  /\ mainRan' = Append(mainRan, "process")
  /\ mainPc' = "exited"
  /\ UNCHANGED <<mainIn, dash>>
  /\ UNCHANGED mainOthers

\* the steps of the main thread
MainThread ==
  \/ MainBegin
  \/ MainInitDb
  \/ MainStartServer
  \/ MainDiscover
  \/ MainPersist
  \/ MainProcess

MainNext ==
  \/ MainThread
  \/ ServerStops

----------------------------------------------------------------------------
(* AIHelper.validate_compose, on the document yaml.safe_load returned *)

Invalid(error) == [valid |-> FALSE, errors |-> <<error>>]

\* `if not services`: the key is absent, or holds None or an empty mapping
NoServices(compose_data) ==
  LET services == ServicesOf(compose_data)
  IN  services.null \/ services.items = <<>>

validate_compose(compose_data) ==
  LET services == ServicesOf(compose_data)
  IN  IF NoServices(compose_data) THEN Invalid("No services defined")
      ELSE IF Len(services.items) > 1
           THEN Invalid("Only single-service compose files are supported")
      ELSE
        LET service_config == services.items[1].cfg
        IN  IF service_config.null THEN Invalid("Validation error")    \* None.get
            ELSE IF GetOr(service_config.image, <<>>) = <<>>
                 THEN Invalid("Service must specify an image")
            ELSE [valid |-> TRUE, errors |-> <<>>]

----------------------------------------------------------------------------
(* FileIDGenerator.generate_file_id                                        *)
(*                                                                         *)
(* A file's content is a list of blocks of chunk_size (4096) bytes, so its *)
(* size is counted in blocks and f.read(chunk_size) returns one block.     *)
(* md5 and sha256 are modelled as free of collisions: a digest is the      *)
(* tagged value it was computed from.                                      *)

MaxChunks == 5
MaxBlocks == 6
MaxEdits == 2
MaxCalls == 2
Blocks == {"a", "b"}
ABS_PATH == "/data/video.mp4"

RECURSIVE Contents(_)
\* the contents of at most n blocks
Contents(n) ==
  IF n = 0 THEN {<<>>}
  ELSE Contents(n - 1) \cup {Append(c, b) : c \in {d \in Contents(n - 1) : Len(d) = n - 1},
                                            b \in Blocks}

\* what the loop over range(max_chunks) has read
FirstChunks(content) ==
  SubSeq(content, 1, IF Len(content) > MaxChunks THEN MaxChunks ELSE Len(content))

\* _calculate_partial_hash: the md5 of the first chunks, "empty" when the
\* file cannot be opened or read
calculate_partial_hash(file) ==
  IF file.readable THEN <<"md5", FirstChunks(file.content)>> ELSE <<"empty">>

\* generate_file_id: sha256 of f"{abs_path}:{file_size}:{partial_content_hash}"
generate_file_id(file) ==
  <<"sha256", ABS_PATH, Len(file.content), calculate_partial_hash(file)>>

IdIdle ==
  /\ idFile = [readable |-> FALSE, content |-> <<>>]
  /\ idEdits = MaxEdits
  /\ idLog = <<<<>>, <<>>>>

IdInit ==
  /\ idFile \in [readable : BOOLEAN, content : Contents(MaxBlocks - 1)]
  /\ idEdits = 0
  /\ idLog = <<>>

GenerateFileId ==
  /\ Len(idLog) < MaxCalls
  /\ idLog' = Append(idLog, [content |-> idFile.content, id |-> generate_file_id(idFile)])
  /\ UNCHANGED <<idFile, idEdits>>
  /\ UNCHANGED idOthers

\* something appends a block to the file
AppendBlock ==
  /\ idEdits < MaxEdits
  /\ Len(idFile.content) < MaxBlocks
  /\ \E b \in Blocks : idFile' = [idFile EXCEPT !.content = Append(@, b)]
  /\ idEdits' = idEdits + 1
  /\ UNCHANGED idLog
  /\ UNCHANGED idOthers

\* something truncates the file by a block
TruncateBlock ==
  /\ idEdits < MaxEdits
  /\ idFile.content # <<>>
  /\ idFile' = [idFile EXCEPT !.content = SubSeq(@, 1, Len(@) - 1)]
  /\ idEdits' = idEdits + 1
  /\ UNCHANGED idLog
  /\ UNCHANGED idOthers

\* something changes bytes of block k
OverwriteBlock(k) ==
  /\ idEdits < MaxEdits
  /\ k \in DOMAIN idFile.content
  /\ \E b \in Blocks \ {idFile.content[k]} :
       idFile' = [idFile EXCEPT !.content = [@ EXCEPT ![k] = b]]
  /\ idEdits' = idEdits + 1
  /\ UNCHANGED idLog
  /\ UNCHANGED idOthers

IdNext ==
  \/ GenerateFileId
  \/ AppendBlock
  \/ TruncateBlock
  \/ \E k \in 1..(MaxBlocks + 1) : OverwriteBlock(k)

----------------------------------------------------------------------------
(* section_discovery.discover_sections on one base directory               *)
(*                                                                         *)
(* A directory below the base is the list of the names that lead to it,    *)
(* the base itself is <<>>, and a tree is the set of the directories below *)
(* the base. Every directory can be listed and no timeout strikes.         *)

HIDDEN == <<".", "h">>
ChainC == <<<<"a">>, <<"b">>, <<"c">>>>

\* the directories a tree is made of
Universe ==
  {<<<<"a">>>>, <<<<"a">>, <<"b">>>>, ChainC, <<<<"b">>>>,
   <<HIDDEN>>, <<HIDDEN, <<"a">>>>, <<<<"a">>, HIDDEN>>}

\* q lies directly in p
ChildOf(q, p) == Len(q) = Len(p) + 1 /\ SubSeq(q, 1, Len(p)) = p

Trees ==
  {t \in SUBSET Universe :
     \A q \in t : Len(q) > 1 => SubSeq(q, 1, Len(q) - 1) \in t}

\* entry.startswith('.')
IsHidden(name) == name # <<>> /\ name[1] = "."

\* depth >= max_depth - 1
DepthReached(depth, max_depth) == depth >= max_depth - 1

MaxTreeDepth == 3

RECURSIVE Walk(_, _, _, _)
\* the directories the loop over _safe_walk adds, from p on: p itself, and
\* what lies below its entries that are not hidden unless dirs was cleared;
\* fuel bounds the recursion by the depth of the tree
Walk(t, p, max_depth, fuel) ==
  LET dirs == {q \in t : ChildOf(q, p) /\ ~IsHidden(q[Len(q)])}
      kept == IF DepthReached(Len(p), max_depth) \/ fuel = 0 THEN {} ELSE dirs
  IN  {p} \cup UNION {Walk(t, q, max_depth, fuel - 1) : q \in kept}

\* the characters of the paths, in the order of their code points
CharOrder == <<".", "/", "a", "b", "c", "h">>
CharRank(ch) == CHOOSE i \in 1..Len(CharOrder) : CharOrder[i] = ch

RECURSIVE PathString(_)
\* os.path.join of the base, written "b", and the names
PathString(p) ==
  IF p = <<>> THEN <<"b">>
  ELSE PathString(SubSeq(p, 1, Len(p) - 1)) \o <<"/">> \o p[Len(p)]

RECURSIVE StrLess(_, _)
\* x < y for two Python strings
StrLess(x, y) ==
  IF y = <<>> THEN FALSE
  ELSE IF x = <<>> THEN TRUE
  ELSE IF x[1] # y[1] THEN CharRank(x[1]) < CharRank(y[1])
  ELSE StrLess(Tail(x), Tail(y))

RECURSIVE Sorted(_)
\* sorted(list(sections))
Sorted(set) ==
  IF set = {} THEN <<>>
  ELSE LET least == CHOOSE x \in set : \A y \in set \ {x} : StrLess(x, y)
       IN  <<least>> \o Sorted(set \ {least})

discover_sections(t, max_depth) ==
  Sorted({PathString(p) : p \in Walk(t, <<>>, max_depth, MaxTreeDepth)})

MaxDepthArg == 4

SdIdle == sdIn = [tree |-> {}, max_depth |-> 0] /\ sdOut = <<<<>>>>

SdInit ==
  /\ sdIn \in [tree : Trees, max_depth : 0..MaxDepthArg]
  /\ sdOut = <<>>

DiscoverSections ==
  /\ sdOut = <<>>
  /\ sdOut' = <<discover_sections(sdIn.tree, sdIn.max_depth)>>
  /\ UNCHANGED sdIn
  /\ UNCHANGED sdOthers

----------------------------------------------------------------------------
(* FileIndexer._process_files: the files of one section, one at a time     *)
(*                                                                         *)
(* A path is [stem, ext]. A file is [path, tag], tag being what            *)
(* get_metadata('pnxid') returns: NONE or an identity. The tables are sets *)
(* of rows: inventory rows [file_id, filepath, status] with file_id the    *)
(* primary key and filepath UNIQUE (config.py), conversion_queue rows      *)
(* [filepath, target_path, status], error_log rows [file_path, issue].     *)
(* The parameter ok of a write says that execute_query did not raise for   *)
(* a reason of its own (a locked or unreachable database).                 *)

MaxIxFiles == 2
Stems == {"a", "b"}
Exts == {"txt", "avi", "mp4"}
EmbeddedIds == {<<"X">>}

is_video_file(path) == path.ext \in {"avi", "mp4"}
is_mp4_file(path) == path.ext = "mp4"

\* FileIDGenerator(file_path).generate_file_id(): one identity per path
NewFileId(path) == <<"sha256", path.stem>>

\* os.path.splitext(file_path)[0] + ".mp4"
TargetPath(path) == [stem |-> path.stem, ext |-> "mp4"]

\* the UNIQUE(filepath) constraint of inventory: another row has the path
PathTaken(inv, file_id, filepath) ==
  \E r \in inv : r.filepath = filepath /\ r.file_id # file_id

\* _record_error: the row of the path is replaced, or inserted; a failing
\* query is logged and nothing else
record_error(st, file_path, issue, ok) ==
  IF ~ok THEN st
  ELSE [st EXCEPT !.error_log =
          {r \in @ : r.file_path # file_path}
            \cup {[file_path |-> file_path, issue |-> issue]}]

\* what a write helper returns: the tables after, and whether it caught an
\* exception (it then adds one to error_count)
Wrote(st) == [st |-> st, caught |-> FALSE]
Caught(st) == [st |-> st, caught |-> TRUE]

\* _update_inventory: UPDATE ... WHERE file_id = ?
update_inventory(st, file_id, filepath, ok) ==
  LET has == \E r \in st.inventory : r.file_id = file_id
  IN  IF ~ok \/ (has /\ PathTaken(st.inventory, file_id, filepath))
      THEN Caught(st)
      ELSE Wrote([st EXCEPT !.inventory =
             {IF r.file_id = file_id
                THEN [r EXCEPT !.filepath = filepath, !.status = "updated"]
                ELSE r : r \in @}])

\* _insert_into_inventory: SELECT, then UPDATE or INSERT
insert_into_inventory(st, file_id, filepath, ok) ==
  LET has == \E r \in st.inventory : r.file_id = file_id
  IN  IF ~ok \/ PathTaken(st.inventory, file_id, filepath)
      THEN Caught(st)
      ELSE IF has
      THEN Wrote([st EXCEPT !.inventory =
             {IF r.file_id = file_id
                THEN [r EXCEPT !.filepath = filepath, !.status = "updated"]
                ELSE r : r \in @}])
      ELSE Wrote([st EXCEPT !.inventory =
             @ \cup {[file_id |-> file_id, filepath |-> filepath, status |-> "new"]}])

\* _add_to_conversion_queue: SELECT, then UPDATE or INSERT
add_to_conversion_queue(st, file_path, ok) ==
  IF ~ok THEN Caught(st)
  ELSE Wrote([st EXCEPT !.conversion_queue =
         {r \in @ : r.filepath # file_path}
           \cup {[filepath |-> file_path, target_path |-> TargetPath(file_path),
                  status |-> "pending"]}])

\* what the environment does to one _process_file call: guess_type or
\* human_readable_size raises, getsize raises OSError, VideoMetadata raises,
\* add_metadata returns False, the table write fails, the error_log write
\* fails
Envs ==
  [escapes : BOOLEAN, size_ok : BOOLEAN, meta_ok : BOOLEAN,
   tag_written : BOOLEAN, db_ok : BOOLEAN, log_ok : BOOLEAN]

\* the outcome of one pass of the loop body of _process_files:
\* [st, errors, raised]: the tables, how much error_count grew, and the
\* message of the exception that was raised for this file (NoExc if none)
Step(st, errors, raised) == [st |-> st, errors |-> errors, raised |-> raised]

_process_mp4_file(st, file, env) ==
  IF ~env.meta_ok
  THEN Step(record_error(st, file.path, "metadata", env.log_ok), 1, "metadata")
  ELSE LET w == IF file.tag # NONE
                THEN update_inventory(st, file.tag, file.path, env.db_ok)
                ELSE insert_into_inventory(st, NewFileId(file.path), file.path, env.db_ok)
       IN  Step(w.st, IF w.caught THEN 1 ELSE 0, IF w.caught THEN "database" ELSE NoExc)

_process_file(st, file, env) ==
  IF ~is_video_file(file.path) THEN Step(st, 0, NoExc)
  ELSE IF env.escapes
  THEN Step(record_error(st, file.path, "escaped", env.log_ok), 1, "escaped")
  ELSE IF ~env.size_ok
  THEN Step(record_error(st, file.path, "size", env.log_ok), 1, "size")
  ELSE IF is_mp4_file(file.path) THEN _process_mp4_file(st, file, env)
  ELSE LET w == add_to_conversion_queue(st, file.path, env.db_ok)
       IN  Step(w.st, IF w.caught THEN 1 ELSE 0, IF w.caught THEN "database" ELSE NoExc)

NoTables == [inventory |-> {}, conversion_queue |-> {}, error_log |-> {}]
NoFile == [file |-> [path |-> [stem |-> "", ext |-> ""], tag |-> NONE],
           raised |-> NoExc, pre |-> NoTables, errors |-> 0, left |-> 0, env_ok |-> TRUE]

IxIdle ==
  /\ ixFiles = <<>> /\ ixStore = NoTables /\ error_count = 0
  /\ ixLast = NoFile /\ ixStatus = "idle"

Paths == [stem : Stems, ext : Exts]
FilesOf == {f \in [path : Paths, tag : {NONE} \cup EmbeddedIds] :
              f.tag # NONE => is_mp4_file(f.path)}

\* what earlier runs left behind: nothing, a row for identity X at another
\* path, a row for path a.mp4 under an old identity, an error_log entry
EarlierInventories ==
  { {},
    {[file_id |-> <<"X">>, filepath |-> [stem |-> "b", ext |-> "mp4"], status |-> "new"]},
    {[file_id |-> <<"old">>, filepath |-> [stem |-> "a", ext |-> "mp4"], status |-> "new"]} }
EarlierErrors ==
  { {}, {[file_path |-> [stem |-> "a", ext |-> "avi"], issue |-> "earlier"]} }

IxInit ==
  /\ ixFiles \in {fs \in UNION {[1..n -> FilesOf] : n \in 1..MaxIxFiles} :
                    \A i, j \in DOMAIN fs : fs[i].path = fs[j].path => i = j}
  /\ ixStore \in [inventory : EarlierInventories, conversion_queue : {{}},
                  error_log : EarlierErrors]
  /\ error_count = 0
  /\ ixLast = NoFile
  /\ ixStatus = "indexing"

\* one pass of the loop body of _process_files
IndexFile ==
  /\ ixStatus = "indexing"
  /\ ixFiles # <<>>
  /\ \E env \in Envs :
       LET o == _process_file(ixStore, Head(ixFiles), env)
       IN  /\ ixStore' = o.st
           /\ error_count' = error_count + o.errors
           /\ ixLast' = [file |-> Head(ixFiles), raised |-> o.raised, pre |-> ixStore,
                         errors |-> o.errors, left |-> Len(ixFiles) - 1,
                         env_ok |-> env.db_ok /\ env.log_ok]
  /\ ixFiles' = Tail(ixFiles)
  /\ UNCHANGED <<ixStatus, ixOthers>>

\* the loop has ended: _mark_section_as_indexed
IndexDone ==
  /\ ixStatus = "indexing"
  /\ ixFiles = <<>>
  /\ \E ok \in BOOLEAN : ixStatus' = mark_section_status(ixStatus, "completed", ok)
  /\ UNCHANGED <<ixFiles, ixStore, error_count, ixLast, ixOthers>>

IxNext == IndexFile \/ IndexDone

----------------------------------------------------------------------------
(* VideoMetadata.add_metadata                                              *)
(*                                                                         *)
(* One attempt is subprocess.run(ffmpeg ...), the test of temp_output and  *)
(* shutil.move(temp_output, self.file_path). temp_output lies in a fresh   *)
(* tempfile.TemporaryDirectory, so shutil.move renames when both paths are *)
(* on one filesystem and otherwise copies over the destination and then    *)
(* unlinks the source: a copy that raises has opened and partly written    *)
(* the destination.                                                        *)

max_retries == 3
TempStates == {"absent", "small", "valid"}

AmIdle ==
  /\ amPc = "idle" /\ retry = 0 /\ amOrig = "original" /\ amTemp = "absent"
  /\ amRet = "unset" /\ amHist = <<>>

\* add_metadata is called; the temporary directory is empty
AmInit ==
  /\ amPc = "run" /\ retry = 0 /\ amOrig = "original" /\ amTemp = "absent"
  /\ amRet = "unset" /\ amHist = <<>>

\* except (subprocess.SubprocessError, IOError, OSError), lines 136-142
AmInnerExcept(raise_to) == IF retry < max_retries - 1 THEN "sleep" ELSE raise_to

\* subprocess.run(cmd, capture_output=True, check=True): it returns, or it
\* raises CalledProcessError or OSError, and leaves any temp_output
AmRun ==
  /\ amPc = "run"
  /\ \E raised \in BOOLEAN, temp \in TempStates :
       /\ amTemp' = temp
       /\ amHist' = Append(amHist, [run |-> IF raised THEN "raised" ELSE "ok",
                                    temp |-> temp, move |-> "none"])
       /\ IF raised
          THEN /\ amPc' = AmInnerExcept("done")
               /\ amRet' = IF retry < max_retries - 1 THEN amRet ELSE "false"
          ELSE amPc' = "check" /\ amRet' = amRet
  /\ UNCHANGED <<retry, amOrig, amOthers>>

\* lines 127-129: ValueError is not caught in the loop and ends the call
AmCheck ==
  /\ amPc = "check"
  /\ IF amTemp # "valid"
     THEN amPc' = "done" /\ amRet' = "false"
     ELSE amPc' = "move" /\ amRet' = amRet
  /\ UNCHANGED <<retry, amOrig, amTemp, amHist, amOthers>>

\* shutil.move(temp_output, self.file_path)
AmMove ==
  /\ amPc = "move"
  /\ \E how \in {"moved", "raised", "raised_partway"} :
       /\ amHist' = [amHist EXCEPT ![Len(amHist)].move = how]
       /\ amOrig' = CASE how = "moved" -> IF amOrig = "damaged" THEN "damaged" ELSE "rewritten"
                      [] how = "raised" -> amOrig
                      [] OTHER -> "damaged"
       /\ amTemp' = IF how = "moved" THEN "absent" ELSE amTemp
       /\ IF how = "moved"
          THEN amPc' = "done" /\ amRet' = "true"
          ELSE /\ amPc' = AmInnerExcept("done")
               /\ amRet' = IF retry < max_retries - 1 THEN amRet ELSE "false"
  /\ UNCHANGED <<retry, amOthers>>

\* time.sleep(1), and the next pass of for retry in range(max_retries)
AmSleep ==
  /\ amPc = "sleep"
  /\ retry' = retry + 1
  /\ amPc' = "run"
  /\ UNCHANGED <<amOrig, amTemp, amRet, amHist, amOthers>>

AmNext == AmRun \/ AmCheck \/ AmMove \/ AmSleep

----------------------------------------------------------------------------
(* StatusDisplay: set_value, set_multiple, update, finish, enable, disable *)
(*                                                                         *)
(* self.lock is a threading.Lock: acquiring it waits until no thread holds *)
(* it, the acquiring thread included. Threads interleave at every step.    *)
(* Time is counted in units of update_interval from the display's          *)
(* creation: time.time() is at least one interval above the initial        *)
(* last_update_time of 0.                                                  *)

MaxNow == 3
MaxThreadsDisp == 2
DispThreads == 1..MaxThreadsDisp
update_interval == 1
DisplayOps == {"set_value", "set_multiple", "update", "finish", "enable"}

Resting == [op |-> "none", at |-> "idle", cur |-> 0, renders |-> 0]

DispIdle ==
  /\ dispLock = 0 /\ dispAt = [t \in {} |-> Resting] /\ is_enabled = TRUE
  /\ last_update_time = 0 /\ now = 0

\* StatusDisplay.__init__
DispInit ==
  /\ dispLock = 0 /\ dispAt = [t \in DispThreads |-> Resting] /\ is_enabled = TRUE
  /\ last_update_time = 0 /\ now = 1

\* where a call goes on when the update() it made has returned
AfterUpdate(op) ==
  CASE op \in {"set_value", "set_multiple"} -> "stamp"
    [] op = "finish" -> "disable"
    [] OTHER -> "idle"

\* a thread calls a method: update() and enable() do not take the lock first
DispCall(t, op) ==
  /\ t \in DispThreads /\ dispAt[t].at = "idle"
  /\ dispAt' = [dispAt EXCEPT ![t] =
       [op |-> op, at |-> IF op \in {"update", "enable"} THEN "upd_check" ELSE "lock",
        cur |-> 0, renders |-> 0]]
  /\ is_enabled' = IF op = "enable" THEN TRUE ELSE is_enabled
  /\ UNCHANGED <<dispLock, last_update_time, now, dispOthers>>

\* disable(): one assignment
DispDisable(t) ==
  /\ t \in DispThreads /\ dispAt[t].at = "idle"
  /\ is_enabled' = FALSE
  /\ UNCHANGED <<dispLock, dispAt, last_update_time, now, dispOthers>>

\* with self.lock: of set_value, set_multiple and finish
DispAcquire(t) ==
  /\ t \in DispThreads /\ dispAt[t].at = "lock"
  /\ dispLock = 0
  /\ dispLock' = t
  /\ dispAt' = [dispAt EXCEPT ![t].at = "body"]
  /\ UNCHANGED <<is_enabled, last_update_time, now, dispOthers>>

\* the values are stored and the interval is tested; finish calls update()
\* whatever the time
DispBody(t) ==
  /\ t \in DispThreads /\ dispAt[t].at = "body"
  /\ dispAt' = [dispAt EXCEPT ![t].cur = now,
                  ![t].at = IF dispAt[t].op = "finish"
                               \/ now - last_update_time >= update_interval
                            THEN "upd_check" ELSE "unlock"]
  /\ UNCHANGED <<dispLock, is_enabled, last_update_time, now, dispOthers>>

\* update(): if not self.is_enabled: return
UpdateCheck(t) ==
  /\ t \in DispThreads /\ dispAt[t].at = "upd_check"
  /\ dispAt' = [dispAt EXCEPT ![t].at =
       IF is_enabled THEN "upd_lock" ELSE AfterUpdate(dispAt[t].op)]
  /\ UNCHANGED <<dispLock, is_enabled, last_update_time, now, dispOthers>>

\* update(): with self.lock:
UpdateAcquire(t) ==
  /\ t \in DispThreads /\ dispAt[t].at = "upd_lock"
  /\ dispLock = 0
  /\ dispLock' = t
  /\ dispAt' = [dispAt EXCEPT ![t].at = "render"]
  /\ UNCHANGED <<is_enabled, last_update_time, now, dispOthers>>

\* update(): the screen is written, and the with block releases the lock
UpdateRender(t) ==
  /\ t \in DispThreads /\ dispAt[t].at = "render"
  /\ dispLock' = 0
  /\ dispAt' = [dispAt EXCEPT ![t].renders = @ + 1,
                  ![t].at = AfterUpdate(dispAt[t].op)]
  /\ UNCHANGED <<is_enabled, last_update_time, now, dispOthers>>

\* self.last_update_time = current_time
DispStamp(t) ==
  /\ t \in DispThreads /\ dispAt[t].at = "stamp"
  /\ last_update_time' = dispAt[t].cur
  /\ dispAt' = [dispAt EXCEPT ![t].at = "unlock"]
  /\ UNCHANGED <<dispLock, is_enabled, now, dispOthers>>

\* finish: the final message, and self.disable()
FinishDisable(t) ==
  /\ t \in DispThreads /\ dispAt[t].at = "disable"
  /\ is_enabled' = FALSE
  /\ dispAt' = [dispAt EXCEPT ![t].at = "unlock"]
  /\ UNCHANGED <<dispLock, last_update_time, now, dispOthers>>

\* the with block of set_value, set_multiple or finish ends; the call returns
DispRelease(t) ==
  /\ t \in DispThreads /\ dispAt[t].at = "unlock"
  /\ dispLock' = 0
  /\ dispAt' = [dispAt EXCEPT ![t].at = "idle"]
  /\ UNCHANGED <<is_enabled, last_update_time, now, dispOthers>>

\* time passes
DispTick ==
  /\ dispAt # <<>> /\ now < MaxNow
  /\ now' = now + 1
  /\ UNCHANGED <<dispLock, dispAt, is_enabled, last_update_time, dispOthers>>

\* the steps a thread takes inside a call
DispThread(t) ==
  \/ DispAcquire(t)
  \/ DispBody(t)
  \/ UpdateCheck(t)
  \/ UpdateAcquire(t)
  \/ UpdateRender(t)
  \/ DispStamp(t)
  \/ FinishDisable(t)
  \/ DispRelease(t)

DispNext ==
  \/ \E t \in DispThreads, op \in DisplayOps : DispCall(t, op)
  \/ \E t \in DispThreads : DispDisable(t)
  \/ \E t \in DispThreads : DispThread(t)
  \/ DispTick

----------------------------------------------------------------------------
(* db_utils: get_connection and close_connections                          *)
(*                                                                         *)
(* _connection is a module global that neither function guards with a      *)
(* lock, so threads interleave between the test of the global, the         *)
(* assignment to it and the read that returns it. Connections are numbered *)
(* in the order sqlite3.connect returns them.                              *)

MaxConns == 3
MaxThreadsConn == 2
ConnThreads == 1..MaxThreadsConn
ConnOps == {"get_connection", "close_connections"}

NotCalling == [op |-> "none", at |-> "idle", got |-> 0]

GcIdle ==
  /\ _connection = 0 /\ gcAt = [t \in {} |-> NotCalling] /\ opened = 0
  /\ sinceClose = {} /\ closed = {}

\* the module is imported: _connection = None
GcInit ==
  /\ _connection = 0 /\ gcAt = [t \in ConnThreads |-> NotCalling] /\ opened = 0
  /\ sinceClose = {} /\ closed = {}

GcCall(t, op) ==
  /\ t \in ConnThreads /\ gcAt[t].at = "idle"
  /\ gcAt' = [gcAt EXCEPT ![t] = [op |-> op, at |-> "test", got |-> 0]]
  /\ UNCHANGED <<_connection, opened, sinceClose, closed, gcOthers>>

\* get_connection: if _connection is None:
GcTest(t) ==
  /\ t \in ConnThreads /\ gcAt[t].op = "get_connection" /\ gcAt[t].at = "test"
  /\ gcAt' = [gcAt EXCEPT ![t].at = IF _connection = 0 THEN "connect" ELSE "return"]
  /\ UNCHANGED <<_connection, opened, sinceClose, closed, gcOthers>>

\* get_connection: _connection = sqlite3.connect(database_path)
GcConnect(t) ==
  /\ t \in ConnThreads /\ gcAt[t].at = "connect"
  /\ opened < MaxConns
  /\ opened' = opened + 1
  /\ _connection' = opened + 1
  /\ sinceClose' = sinceClose \cup {opened + 1}
  /\ gcAt' = [gcAt EXCEPT ![t].at = "return"]
  /\ UNCHANGED <<closed, gcOthers>>

\* get_connection: return _connection
GcReturn(t) ==
  /\ t \in ConnThreads /\ gcAt[t].at = "return"
  /\ gcAt' = [gcAt EXCEPT ![t].at = "idle", ![t].got = _connection]
  /\ UNCHANGED <<_connection, opened, sinceClose, closed, gcOthers>>

\* close_connections: if _connection:
CloseTest(t) ==
  /\ t \in ConnThreads /\ gcAt[t].op = "close_connections" /\ gcAt[t].at = "test"
  /\ gcAt' = [gcAt EXCEPT ![t].at = IF _connection # 0 THEN "close" ELSE "idle"]
  /\ sinceClose' = IF _connection # 0 THEN sinceClose ELSE {}
  /\ UNCHANGED <<_connection, opened, closed, gcOthers>>

\* close_connections: _connection.close(); AttributeError when another
\* thread has set the global to None since the test
CloseClose(t) ==
  /\ t \in ConnThreads /\ gcAt[t].at = "close"
  /\ closed' = IF _connection # 0 THEN closed \cup {_connection} ELSE closed
  /\ gcAt' = [gcAt EXCEPT ![t].at = IF _connection # 0 THEN "clear" ELSE "idle",
                          ![t].got = IF _connection # 0 THEN 0 ELSE -1]
  /\ UNCHANGED <<_connection, opened, sinceClose, gcOthers>>

\* close_connections: _connection = None
CloseClear(t) ==
  /\ t \in ConnThreads /\ gcAt[t].at = "clear"
  /\ _connection' = 0
  /\ sinceClose' = {}
  /\ gcAt' = [gcAt EXCEPT ![t].at = "idle"]
  /\ UNCHANGED <<opened, closed, gcOthers>>

GcNext ==
  \/ \E t \in ConnThreads, op \in ConnOps : GcCall(t, op)
  \/ \E t \in ConnThreads : GcTest(t)
  \/ \E t \in ConnThreads : GcConnect(t)
  \/ \E t \in ConnThreads : GcReturn(t)
  \/ \E t \in ConnThreads : CloseTest(t)
  \/ \E t \in ConnThreads : CloseClose(t)
  \/ \E t \in ConnThreads : CloseClear(t)

----------------------------------------------------------------------------
(* Claims about the conversion, checked under SpecConvert *)

CvDone == cvOut # <<>>
CvResult == cvOut[1]
CvServices == ServicesOf(cvIn.doc)

\* how many services the document declares: none when the key is missing,
\* has no value, or holds an empty mapping
DeclaredServices == IF CvServices.null THEN 0 ELSE Len(CvServices.items)

\* the configuration of the single service
TheService == CvServices.items[1].cfg

\* the single service has no image: no configuration at all, no image key,
\* or an empty image
HasNoImage == TheService.null \/ GetOr(TheService.image, <<>>) = <<>>

\* C5 as stated: the conversion fails with the Compose error whenever the
\* document does not declare exactly one service, and whenever its single
\* service has no image; in neither case is an App Configuration returned.
C5_RejectsAsComposeError ==
  CvDone =>
    ((DeclaredServices # 1 \/ HasNoImage)
       => (CvResult.kind = "DockerComposeError" /\ CvResult.config = NoConfig))

\* the conversion got as far as the ports: one service, with an image
ReachesPorts == DeclaredServices = 1 /\ ~HasNoImage

CvPorts == GetOr(TheService.ports, <<>>)
CvVolumes == GetOr(TheService.volumes, <<>>)
CvImage == GetOr(TheService.image, <<>>)

Colons(s) == {i \in 1..Len(s) : s[i] = COLON}

\* 'H:C' with H and C integers: a string with exactly one colon between two
\* integer literals
IsHostContainer(e) ==
  /\ e.isstr
  /\ Cardinality(Colons(e.s)) = 1
  /\ LET i == FirstIndex(e.s, COLON)
     IN  IsIntLiteral(SubSeq(e.s, 1, i - 1)) /\ IsIntLiteral(Drop(e.s, i))

\* {host_port: int(H), container_port: int(C)} of an 'H:C' entry
ForwardOf(e) ==
  LET i == FirstIndex(e.s, COLON)
  IN  [container_port |-> ToInt(Drop(e.s, i)), host_port |-> ToInt(SubSeq(e.s, 1, i - 1))]

ForwardsOf(entries) == [i \in 1..Len(entries) |-> ForwardOf(entries[i])]

\* C6 as stated: each 'H:C' entry gives exactly one port forward
\* {host_port: int(H), container_port: int(C)}, and every ports entry that
\* is not such an entry (no colon, more than one colon, a non-numeric part)
\* makes the conversion fail with the Compose error.
C6_AsStated ==
  (CvDone /\ ReachesPorts) =>
    IF \A i \in 1..Len(CvPorts) : IsHostContainer(CvPorts[i])
    THEN CvResult.kind = "ok" /\ ValueOf(CvResult.config).port_forwards = ForwardsOf(CvPorts)
    ELSE CvResult.kind = "DockerComposeError"

\* the entries the conversion looks at: the strings that contain a colon
HasColon(e) == e.isstr /\ Colons(e.s) # {}

\* C6 amended: the conversion looks only at the ports entries that are
\* strings containing a colon; if one of them has more than one colon or a
\* part that is no integer it fails with the Compose error and returns no
\* configuration; otherwise it succeeds with exactly one port forward
\* {host_port: int(H), container_port: int(C)} per such 'H:C' entry, in
\* order, and every entry without a colon (or that is no string) is skipped
\* without an error and without a port forward.
C6_PortForwards ==
  (CvDone /\ ReachesPorts) =>
    LET looked == SelectSeq(CvPorts, HasColon)
    IN  IF \A i \in 1..Len(looked) : IsHostContainer(looked[i])
        THEN /\ CvResult.kind = "ok"
             /\ ValueOf(CvResult.config).port_forwards = ForwardsOf(looked)
        ELSE CvResult.kind = "DockerComposeError" /\ CvResult.config = NoConfig

\* ports ['8:80', '80'] converted: one forward 8 -> 80, the entry '80' skipped
C6_Witness ==
  /\ CvDone /\ ReachesPorts
  /\ CvPorts = <<StrEntry(<<"8", ":", "8", "0">>), StrEntry(<<"8", "0">>)>>
  /\ CvResult.kind = "ok"
  /\ ValueOf(CvResult.config).port_forwards = <<[container_port |-> 80, host_port |-> 8]>>

\* every volumes entry is 'H:C' or 'H:C:M'
WellFormedVolumes == \A i \in 1..Len(CvVolumes) : HasColon(CvVolumes[i])
WellFormedPorts == \A i \in 1..Len(CvPorts) : IsHostContainer(CvPorts[i])

\* C7: a document with exactly one service that has an image and
\* well-formed ports and volumes converts, for every app name n, to a
\* configuration named n whose repository is the image reference up to its
\* first colon and whose tag is what follows that colon ('latest' when the
\* reference has no colon), with one port forward per ports entry, one
\* volume per volumes entry, the service's environment unchanged and
\* restart_policy 'unless-stopped' whatever the service's restart value.
C7_Conversion ==
  (CvDone /\ ReachesPorts /\ WellFormedPorts /\ WellFormedVolumes) =>
    /\ CvResult.kind = "ok"
    /\ LET config == ValueOf(CvResult.config)
           repository == config.image.repository
           tag == config.image.tag
       IN  /\ config.name = cvIn.name
           /\ Colons(repository) = {} /\ Colons(tag) = {}
           /\ IF Colons(CvImage) = {}
              THEN repository = CvImage /\ tag = LATEST
              ELSE LET head == repository \o <<COLON>> \o tag
                   IN  /\ StartsWith(CvImage, head)
                       /\ (CvImage = head \/ CvImage[Len(head) + 1] = COLON)
           /\ Len(config.port_forwards) = Len(CvPorts)
           /\ Len(config.volumes) = Len(CvVolumes)
           /\ \A i \in 1..Len(CvVolumes) :
                /\ StartsWith(CvVolumes[i].s, config.volumes[i].host_path
                                \o <<COLON>> \o config.volumes[i].container_path)
                /\ (Cardinality(Colons(CvVolumes[i].s)) = 1 => config.volumes[i].mode = RW)
           /\ config.environment = GetOr(TheService.environment, {})
           /\ config.restart_policy = "unless-stopped"

\* image 'n' (no tag), two ports, two volumes, restart 'always', converted
C7_Witness ==
  /\ CvDone /\ ReachesPorts /\ WellFormedPorts /\ WellFormedVolumes
  /\ CvImage = <<"n">>
  /\ Len(CvPorts) = 2 /\ Len(CvVolumes) = 2
  /\ TheService.restart = Present("always")
  /\ TheService.environment # Absent
  /\ cvIn.name = "other"
  /\ CvResult.kind = "ok"
  /\ ValueOf(CvResult.config).image.tag = LATEST

----------------------------------------------------------------------------
(* Claims about the session and the AI Helper, checked under Spec *)

\* the outcome of the call that has just ended, and the Manager before it
Out == last.out
Pre == last.pre

\* method name returned normally during the call
Ok(o, name) == \E i \in 1..Len(o.oks) : o.oks[i] = name

\* method name was entered during the call
WasCalled(o, name) == \E i \in 1..Len(o.calls) : o.calls[i] = name

\* the operations that are call_api or a thin wrapper over it
SessionOps ==
  {"call_api", "list_apps", "get_app_details", "create_app", "update_app",
   "start_app", "stop_app", "delete_app"}

\* no live session: connect() never succeeded, or close() was called since
NoSession == ~Pre.live

\* C1 as stated: with no live session, call_api and every operation built
\* on it, deploy_compose_stack included, fails with the connection error and
\* sends nothing to the transport.
C1_AsStated ==
  (last.op \in SessionOps \cup {"deploy_compose_stack"} /\ NoSession)
    => (Out.exc = "TrueNASConnectionError" /\ Out.sent = <<>>)

\* C1: with no live session, whether or not authenticate() ever succeeded,
\* call_api and its thin wrappers fail with the connection error, and
\* deploy_compose_stack fails with the connection error if its file loads
\* and converts and with the load or conversion failure otherwise; in every
\* case nothing is sent to the transport.
C1_FailFast ==
  (last.op \in SessionOps \cup {"deploy_compose_stack"} /\ NoSession)
    => /\ Out.sent = <<>>
       /\ Out.exc # NoExc
       /\ last.op \in SessionOps => Out.exc = "TrueNASConnectionError"
       /\ last.op = "deploy_compose_stack" =>
            IF Converts(last.args[1], last.args[2])
            THEN Out.exc = "TrueNASConnectionError"
            ELSE Out.exc \in {"DockerComposeError", "TypeError", "AttributeError"}

\* a deployment of a file that converts, after a session that authenticated
\* and was closed
C1_Witness ==
  /\ last.op = "deploy_compose_stack"
  /\ NoSession
  /\ Pre.authed
  /\ Converts(last.args[1], last.args[2])
  /\ Out.exc = "TrueNASConnectionError"

\* the with block is left only through __aexit__
ExitCloses ==
  (pc = "body" /\ pc' = "idle")
    => /\ last'.op = "__aexit__"
       /\ last'.args \in {<<"None">>, <<"Exception">>}
       /\ last'.out.calls = <<"__aexit__", "close">>

\* C2: entering the context manager calls connect() and then, if it
\* returned, authenticate(), and nothing else; leaving the block, whether
\* the body returned or raised, calls close(); close() and __aexit__ never
\* raise, even when closing the transport fails, and leave the Manager
\* disconnected.
C2_ContextManager ==
  /\ [](last.op = "__aenter__" =>
          /\ Out.calls \in {<<"__aenter__", "connect">>,
                            <<"__aenter__", "connect", "authenticate">>}
          /\ WasCalled(Out, "authenticate") <=> Ok(Out, "connect")
          /\ Out.exc = NoExc <=> Out.oks = <<"connect", "authenticate", "__aenter__">>)
  /\ [](last.op \in {"__aexit__", "close"} =>
          /\ Out.exc = NoExc
          /\ Ok(Out, "close")
          /\ ~Out.st.connected
          /\ ~connected)
  /\ [][ExitCloses]_vars

\* the body raised, and closing the transport failed and left it open
C2_Witness ==
  /\ last.op = "__aexit__"
  /\ last.args = <<"Exception">>
  /\ Pre.connected
  /\ Pre.client = "open"
  /\ Out.st.client = "open"
  /\ ~connected

\* C3 as stated: a failure of connect() is the connection error and leaves
\* the Manager disconnected; a failure of authenticate() on a connected
\* Manager is the authentication error; a failure of call_api() on a
\* connected Manager is the API error.
C3_NoRawException ==
  /\ (last.op = "connect" /\ Out.exc # NoExc)
       => (Out.exc = "TrueNASConnectionError" /\ ~connected)
  /\ (last.op = "authenticate" /\ ~NotConnected(Pre) /\ Out.exc # NoExc)
       => Out.exc = "TrueNASAuthenticationError"
  /\ (last.op = "call_api" /\ ~NotConnected(Pre) /\ Out.exc # NoExc)
       => Out.exc = "TrueNASAPIError"

\* the requests of the call that create or update an app, in order
Mutations(o) == SelectSeq(o.sent, LAMBDA q : q.method \in {"app.create", "app.update"})

\* app.query was answered during the call
Queried(o) == \E i \in 1..Len(o.sent) : o.sent[i].method = "app.query" /\ ~o.sent[i].raises

\* app.query was answered with a list that holds an app named n
Listed(o, n) ==
  \E i \in 1..Len(o.sent) :
    /\ o.sent[i].method = "app.query"
    /\ ~o.sent[i].raises
    /\ \E j \in 1..Len(o.sent[i].apps) : o.sent[i].apps[j].name = n

\* C4: a deployment of app name n by deploy_compose_stack or simple_deploy
\* issues at most one of app.create and app.update; when its document
\* converts and app.query was answered it issues exactly one, app.update if
\* the answer holds an app named n and app.create if not; when the document
\* does not convert it issues neither; and simple_deploy reports success
\* with action "updated" or "created" exactly when that call was issued and
\* returned.
C4_Deploy ==
  last.op \in {"deploy_compose_stack", "simple_deploy"} =>
    LET file == last.args[1]
        n == last.args[2]
        muts == Mutations(Out)
        routed == IF Listed(Out, n) THEN "app.update" ELSE "app.create"
    IN  /\ Len(muts) <= 1
        /\ (Converts(file, n) /\ Queried(Out)) => (Len(muts) = 1 /\ muts[1].method = routed)
        /\ ~Converts(file, n) => muts = <<>>
        /\ ~Queried(Out) => muts = <<>>
        /\ last.op = "simple_deploy" =>
             LET result == Out.val[1]
             IN  /\ Out.exc = NoExc
                 /\ result.success <=> (muts # <<>> /\ ~muts[1].raises)
                 /\ result.success <=> result.action # "None"
                 /\ result.action = "updated" => (muts # <<>> /\ muts[1].method = "app.update")
                 /\ result.action = "created" => (muts # <<>> /\ muts[1].method = "app.create")

\* deploy_compose_stack updates the app it found second in the list
C4_Witness ==
  /\ last.op = "deploy_compose_stack"
  /\ last.args[2] = "test-app"
  /\ Len(Out.sent) = 2
  /\ Out.sent[1].apps = <<StoppedApp("other"), RunningApp("test-app")>>
  /\ Out.sent[2].method = "app.update"
  /\ Out.exc = NoExc

\* C9: get_system_status never raises; its result has connected true
\* exactly if connect returned and authenticated true exactly if
\* authenticate returned, error empty exactly if connect, authenticate and
\* list_apps all returned, the empty defaults when connect failed, and the
\* session is closed, as the last thing done, before it returns.
C9_SystemStatus ==
  last.op = "get_system_status" =>
    LET result == Out.val[1]
    IN  /\ Out.exc = NoExc
        /\ result.connected <=> Ok(Out, "connect")
        /\ result.authenticated <=> Ok(Out, "authenticate")
        /\ result.authenticated => result.connected
        /\ result.error = <<>>
             <=> (Ok(Out, "connect") /\ Ok(Out, "authenticate") /\ Ok(Out, "list_apps"))
        /\ ~Ok(Out, "connect") =>
             /\ ~result.connected
             /\ ~result.authenticated
             /\ result.apps = <<>>
             /\ result.app_count = 0
             /\ result.running_apps = 0
        /\ Ok(Out, "close")
        /\ Out.calls[Len(Out.calls)] = "close"
        /\ ~connected

\* connect returned, the login was refused, and the session was closed
C9_Witness ==
  /\ last.op = "get_system_status"
  /\ Out.val[1].connected
  /\ ~Out.val[1].authenticated
  /\ Out.val[1].error = <<"TrueNAS Error", "TrueNASAuthenticationError">>
  /\ Pre.client = "None"
  /\ client = "closed"
  /\ ~connected

\* the actions app_operations dispatches on, and the remote method of each
KnownActions == {"start", "stop", "delete", "status"}

MethodOf(action) ==
  CASE action = "start" -> "app.start"
    [] action = "stop" -> "app.stop"
    [] action = "delete" -> "app.delete"
    [] action = "status" -> "app.query"

\* the requests of the call after the login, in order
EntryRequests(o) == SelectSeq(o.sent, LAMBDA q : q.method # LOGIN)

\* how many of the first i entries have a known action
Rank(operations, i) == Cardinality({j \in 1..i : operations[j].action \in KnownActions})

\* C10: app_operations never raises and returns one result per requested
\* entry, in request order; when the session opens, every entry with a known
\* action is attempted with its own one request and succeeds or fails by the
\* answer to that request alone, and an entry with an unknown action fails
\* alone; when the session cannot be opened every entry is reported failed
\* with a connection-error message and no start, stop, delete or status
\* call is made.
C10_Batch ==
  last.op = "app_operations" =>
    LET operations == last.args[1]
        results == Out.val
        requests == EntryRequests(Out)
    IN  /\ Out.exc = NoExc
        /\ Len(results) = Len(operations)
        /\ \A i \in 1..Len(operations) :
             /\ results[i].app = operations[i].app
             /\ results[i].action = operations[i].action
        /\ Ok(Out, "__aenter__") =>
             /\ Len(requests) = Rank(operations, Len(operations))
             /\ \A i \in 1..Len(operations) :
                  IF operations[i].action \in KnownActions
                  THEN LET q == requests[Rank(operations, i)]
                       IN  /\ q.method = MethodOf(operations[i].action)
                           /\ results[i].success <=>
                                /\ ~q.raises
                                /\ operations[i].action = "status" =>
                                     FirstNamed(q.apps, operations[i].app) # <<>>
                  ELSE /\ ~results[i].success
                       /\ results[i].error = <<"Unknown action">>
        /\ ~Ok(Out, "__aenter__") =>
             /\ requests = <<>>
             /\ \A name \in {"start_app", "stop_app", "delete_app", "get_app_details"} :
                  ~WasCalled(Out, name)
             /\ \A i \in 1..Len(operations) :
                  /\ ~results[i].success
                  /\ Len(results[i].error) = 2
                  /\ results[i].error[1] = "Connection error"

\* the first entry failed and the second was still carried out
C10_Witness ==
  /\ last.op = "app_operations"
  /\ Len(last.args[1]) = 2
  /\ Len(Out.val) = 2
  /\ ~Out.val[1].success
  /\ Out.val[1].error = <<"TrueNASAPIError">>
  /\ Out.val[2].success

----------------------------------------------------------------------------
(* Claims about the CLI, checked under SpecCli *)

\* how often event e stands in the log
Occurrences(log, e) == Cardinality({i \in 1..Len(log) : log[i] = e})

\* every app.delete of the log stands after an input
DeleteAfterInput ==
  \A i \in 1..Len(cliLog) :
    cliLog[i] = "app.delete" => \E j \in 1..(i - 1) : cliLog[j] = "input"

\* the command has ended with a session that was opened
CliDoneEntered == cliPc = "done" /\ cliMgr.authed

\* C11: without --force, delete_command sends app.delete only after the
\* prompt was answered with a yes (in any case of the letters), and when
\* the answer is a yes it sends it once; on any other answer it sends no
\* app.delete and exits with code 0; with --force it never prompts, and
\* once its session is open it sends app.delete once.
C11_DeleteConfirmed ==
  /\ Occurrences(cliLog, "app.delete") <= 1
  /\ Occurrences(cliLog, "input") <= 1
  /\ ~cliArgs.force =>
       /\ DeleteAfterInput
       /\ Occurrences(cliLog, "app.delete") = 1 =>
            (cliAnswer # <<>> /\ Lower(cliAnswer[1]) = YES)
       /\ (cliAnswer # <<>> /\ Lower(cliAnswer[1]) # YES) =>
            /\ Occurrences(cliLog, "app.delete") = 0
            /\ cliPc = "done" => cliCode = <<0>>
       /\ (cliAnswer # <<>> /\ Lower(cliAnswer[1]) = YES /\ cliPc = "done") =>
            Occurrences(cliLog, "app.delete") = 1
  /\ cliArgs.force =>
       /\ Occurrences(cliLog, "input") = 0
       /\ cliAnswer = <<>>
       /\ CliDoneEntered => Occurrences(cliLog, "app.delete") = 1

\* the user typed y: nothing was deleted and the command ended with code 0
C11_Witness ==
  /\ ~cliArgs.force
  /\ cliAnswer = <<<<"y">>>>
  /\ cliPc = "done"
  /\ cliCode = <<0>>
  /\ cliLog = <<LOGIN, "input">>

----------------------------------------------------------------------------
(* Claims about discovery, checked under SpecDisc *)

Discovered == discOut[1]

\* the IP addresses a list of systems reports
IPsOf(systems) == {systems[i].ip_address : i \in 1..Len(systems)}

\* what mDNS reported to the call
MdnsReported == IF discIn.zeroconf THEN discIn.mdns ELSE <<>>

\* C12 as stated: combined discovery returns at most one system per IP
\* address, keeps the LAN scan's record when mDNS and the LAN scan both
\* report an IP address, and returns the list by non-increasing confidence.
C12_LanWins ==
  discOut # <<>> =>
    /\ \A i, j \in 1..Len(Discovered) :
         Discovered[i].ip_address = Discovered[j].ip_address => i = j
    /\ \A i \in 1..Len(Discovered) :
         Discovered[i].ip_address \in IPsOf(MdnsReported) \cap IPsOf(discIn.lan)
           => Discovered[i].discovery_method = "LAN_scan"
    /\ \A i \in 1..(Len(Discovered) - 1) :
         Discovered[i].confidence >= Discovered[i + 1].confidence

----------------------------------------------------------------------------
(* Claims about the Counter and the Indexer, checked under SpecSection *)

\* the changes of status the lifecycle names
LifecycleEdges ==
  {<<"none", "counting">>, <<"pending", "counting">>, <<"counting", "counted">>,
   <<"counted", "indexing">>, <<"indexing", "completed">>,
   <<"counting", "error">>, <<"indexing", "error">>}

\* C13 as stated: over any sequence of Counter and Indexer runs on a
\* section, re-runs after a failure included, every change of its stored
\* status is one of: no row or pending to counting, counting to counted,
\* counted to indexing, indexing to completed, counting to error, indexing
\* to error.
C13_LifecycleEdges ==
  [][section_status' # section_status
       => <<section_status, section_status'>> \in LifecycleEdges]_vars

\* the run of who has returned to its caller
Returned_(who) == runOut.who = who /\ runOut.ended /\ ~runOut.raised

\* C14 as stated: a Counter run that returns on a section with no status
\* row leaves its status counted and its count row stored; an Indexer run
\* that returns on a section not yet completed leaves its status completed,
\* also when the section holds no files.
C14_SuccessStatus ==
  /\ (Returned_("counter") /\ runOut.pre = "none")
       => (section_status = "counted" /\ file_counts # <<>>)
  /\ (Returned_("indexer") /\ runOut.pre # "completed")
       => section_status = "completed"

\* the run is on a section a Counter run has counted before
AlreadyCounted == runOut.had # <<>> /\ runOut.pre \in CountedStatuses

\* the rows are as they were when the run began
RowsUntouched == section_status = runOut.pre /\ file_counts = runOut.had

StoredCounts == <<runOut.had[1].total_files, runOut.had[1].total_directories>>

Reraised ==
  (runPc \in {"counter_except", "indexer_except"} /\ runPc' = "idle")
    => (runOut'.ended /\ runOut'.raised)

----------------------------------------------------------------------------
(* Claims about the Section Processor, checked under SpecPool and under    *)
(* SpecPoolFair                                                            *)

\* the worker threads that have been started and have not finished
Unfinished == {t \in SectionIds : is_alive(t)}

\* C17: at every moment of a SectionProcessor run, the number of worker
\* threads that have been started and have not yet finished is at most the
\* configured thread count (a count of 0 starts none).
C17_ThreadBound == Cardinality(Unfinished) <= max_threads

\* two threads run under a limit of two while a third section waits
C17_Witness ==
  /\ max_threads = 2
  /\ Cardinality(Unfinished) = 2
  /\ sections_queue # <<>>

Handled == {"Completed", "Error"}

\* a step that stores Error for a section changes no other section's status
\* and leaves the queue and the main thread where they are
ErrorIsolated ==
  \A t \in SectionIds :
    (proc_status'[t] = "Error" /\ proc_status[t] # "Error")
      => /\ \A u \in SectionIds \ {t} : proc_status'[u] = proc_status[u]
         /\ sections_queue' = sections_queue
         /\ active_threads' = active_threads
         /\ poolPc' = poolPc

\* C18: with a thread count of at least 1 and every Counter and Indexer run
\* eventually returning or raising, start() eventually returns; by then
\* every section has been handed to one worker thread once and has status
\* Completed or Error; a section whose Counter or Indexer raises gets Error
\* without any change to another section's status or to the scheduling,
\* and no section is ever handed out twice.
C18_AllHandled ==
  /\ [](max_threads >= 1 => <>(poolPc = "returned"))
  /\ [](poolPc = "returned" =>
          \A t \in 1..Len(sections) :
            startedTimes[t] = 1 /\ proc_status[t] \in Handled)
  /\ [](\A t \in SectionIds : startedTimes[t] <= 1)
  /\ [][ErrorIsolated]_vars

\* start() has returned from three sections of which the first failed and
\* the others did not
C18_Witness ==
  /\ poolPc = "returned"
  /\ Len(sections) = 3
  /\ max_threads = 1
  /\ proc_status[1] = "Error"
  /\ proc_status[2] = "Completed"
  /\ proc_status[3] = "Completed"

----------------------------------------------------------------------------
(* Claims about the watchdog, checked under SpecWatchdog *)

\* the watchdog leaves the monitored operation alone
NeverAborts == (wdTimers' # wdTimers \/ wdDumps' # wdDumps) => wdOp' = wdOp

\* a dump comes after the timeout and arms one timer of 60 seconds
DumpRearms ==
  wdDumps' # wdDumps =>
    /\ Len(wdDumps') = Len(wdDumps) + 1
    /\ wdDumps'[Len(wdDumps')] > wdTimeout
    /\ Len(wdTimers') = Len(wdTimers) + 1
    /\ wdTimers'[Len(wdTimers')] = Timer(RearmInterval, wdDumps'[Len(wdDumps')])

\* once cancel() was called on the handle there is no further dump
CancelStops == wdCancelled => wdDumps' = wdDumps

\* C19: a watchdog timer never aborts or interrupts the operation it
\* monitors; after its timeout it dumps the thread stacks and re-arms itself
\* every 60 seconds; and once cancel() has been called on the handle
\* returned to the caller no further dump ever occurs, before the first
\* timeout fired or after the watchdog has re-armed itself.
C19_Watchdog ==
  /\ [][NeverAborts]_vars
  /\ [][DumpRearms]_vars
  /\ [][CancelStops]_vars

----------------------------------------------------------------------------
(* Claims about main(), checked under SpecMainFair *)

PipelineStages == {"discover", "persist", "process"}

\* C20: in the Main Orchestrator, starting the Web Dashboard does not block
\* the scan pipeline: once the database is initialized and the dashboard
\* serves, section discovery, registry persistence and section processing
\* eventually run while the dashboard keeps serving.
C20_DashboardConcurrent ==
  /\ (dash = "serving") ~> (dash = "serving" /\ mainPc \in PipelineStages)
  /\ [](mainPc \in PipelineStages => dash = "serving")

----------------------------------------------------------------------------
(* More claims about the session, checked under Spec *)

\* C28: if entering the Manager as an async context manager fails because
\* authenticate() raises after connect() succeeded, the transport opened by
\* connect() is closed and the Manager is left disconnected.
C28_FailedEntryCloses ==
  (last.op = "__aenter__" /\ Out.exc # NoExc /\ Ok(Out, "connect"))
    => (Out.st.client # "open" /\ ~Out.st.connected /\ ~connected)

----------------------------------------------------------------------------
(* The validator against the conversion, checked under SpecConvert *)

\* C29: every Compose document for which validate_compose reports valid is
\* converted by _convert_compose_to_app_config without the Compose error.
C29_ValidConverts ==
  (cvOut # <<>> /\ validate_compose(cvIn.doc).valid)
    => cvOut[1].kind # "DockerComposeError"

----------------------------------------------------------------------------
(* More claims about the Section Processor, checked under SpecPool *)

StatusAdvances ==
  {<<"Pending", "In Progress">>, <<"In Progress", "Completed">>, <<"In Progress", "Error">>}

\* C30: at every moment of a SectionProcessor run over distinct sections,
\* each section has one status among Pending, In Progress, Completed and
\* Error; a status only advances Pending to In Progress to Completed or
\* Error and never changes once Completed or Error; and the result of
\* get_status_summary() satisfies completed + in_progress + pending + failed
\* = total, the number of sections.
C30_StatusSummary ==
  /\ [](\A t \in 1..Len(sections) :
          proc_status[t] \in {"Pending", "In Progress", "Completed", "Error"})
  /\ [][\A t \in SectionIds :
          proc_status'[t] # proc_status[t]
            => <<proc_status[t], proc_status'[t]>> \in StatusAdvances]_vars
  /\ [](LET summary == get_status_summary
        IN  /\ summary.total = Len(sections)
            /\ summary.completed + summary.in_progress + summary.pending + summary.failed
                 = summary.total)

\* a summary taken while one section is pending, one in progress and one failed
C30_Witness ==
  /\ get_status_summary =
       [total |-> 3, completed |-> 0, in_progress |-> 1, pending |-> 1, failed |-> 1]
  /\ proc_status = <<"Error", "In Progress", "Pending">>

----------------------------------------------------------------------------
(* Claims about the File Identity generator, checked under SpecFileId *)

IsPrefix(c, d) == Len(c) <= Len(d) /\ SubSeq(d, 1, Len(c)) = c

\* two calls were made on a readable file
TwoCalls == Len(idLog) = 2 /\ idFile.readable

\* C21: two calls on the same unmodified file yield the same identifier;
\* appending data beyond the first 5 x 4096 bytes leaves the identifier
\* unchanged; truncating the file below its original size, or changing a
\* byte within the first 5 x 4096 bytes, changes the identifier.
C21_FileIdentity ==
  TwoCalls =>
    LET before == idLog[1].content
        after == idLog[2].content
        same == idLog[1].id = idLog[2].id
    IN  /\ after = before => same
        /\ (IsPrefix(before, after) /\ Len(before) >= MaxChunks) => same
        /\ (IsPrefix(after, before) /\ Len(after) < Len(before)) => ~same
        /\ (Len(after) = Len(before) /\ FirstChunks(after) # FirstChunks(before)) => ~same

----------------------------------------------------------------------------
(* Claims about section discovery, checked under SpecSections *)

\* the tree is the chain a/b/c below the base and nothing else
IsChain == sdIn.tree = {<<<<"a">>>>, <<<<"a">>, <<"b">>>>, ChainC}

SectionsFound == {sdOut[1][i] : i \in 1..Len(sdOut[1])}

\* C22: for a chain root/a/b/c without hidden entries, max_depth=1 returns
\* only root and max_depth=3 returns root, a, b and c; for every tree and
\* depth no hidden directory is in the result, and the result is sorted and
\* free of duplicates.
C22_Discovery ==
  sdOut # <<>> =>
    /\ (IsChain /\ sdIn.max_depth = 1) => SectionsFound = {PathString(<<>>)}
    /\ (IsChain /\ sdIn.max_depth = 3) =>
         SectionsFound = {PathString(p) : p \in sdIn.tree \cup {<<>>}}
    /\ \A p \in sdIn.tree :
         (\E k \in 1..Len(p) : IsHidden(p[k])) => PathString(p) \notin SectionsFound
    /\ \A i, j \in 1..Len(sdOut[1]) : i < j => StrLess(sdOut[1][i], sdOut[1][j])

----------------------------------------------------------------------------
(* Claims about the Indexer's files, checked under SpecIndex *)

\* the rows of a table that are not about the path
OtherQueueRows(q, path) == {r \in q : r.filepath # path}

\* C23: a file that was processed without an exception has caused exactly
\* the writes of its class: a file that is no video none; a video that is no
\* MP4 one pending conversion_queue row for its path, the only one for that
\* path, with the path's .mp4 as target, and no inventory change; an MP4
\* with an embedded pnxid an inventory row of that identity with status
\* 'updated'; an MP4 without one an inventory row of the generated identity
C23_ClassWrites ==
  LET f == ixLast.file
      pre == ixLast.pre
  IN  (ixLast # NoFile /\ ixLast.raised = NoExc) =>
        /\ ~is_video_file(f.path) => ixStore = pre
        /\ (is_video_file(f.path) /\ ~is_mp4_file(f.path)) =>
             /\ {r \in ixStore.conversion_queue : r.filepath = f.path}
                  = {[filepath |-> f.path, target_path |-> TargetPath(f.path),
                      status |-> "pending"]}
             /\ OtherQueueRows(ixStore.conversion_queue, f.path)
                  = OtherQueueRows(pre.conversion_queue, f.path)
             /\ ixStore.inventory = pre.inventory
        /\ (is_mp4_file(f.path) /\ f.tag # NONE) =>
             \E r \in ixStore.inventory :
               r.file_id = f.tag /\ r.filepath = f.path /\ r.status = "updated"
        /\ (is_mp4_file(f.path) /\ f.tag = NONE) =>
             \E r \in ixStore.inventory :
               r.file_id = NewFileId(f.path) /\ r.filepath = f.path

\* C24: a file whose processing raised an exception has added one to
\* error_count and has left the one error_log row of its path, holding that
\* exception; and the section is marked 'completed' only after every file
\* was processed
C24_FileErrors ==
  /\ ixLast.raised # NoExc =>
       /\ ixLast.errors = 1
       /\ {r \in ixStore.error_log : r.file_path = ixLast.file.path}
            = {[file_path |-> ixLast.file.path, issue |-> ixLast.raised]}
  /\ ixStatus = "completed" => ixFiles = <<>>

----------------------------------------------------------------------------
(* Claims about add_metadata, checked under SpecMetadata *)

\* the attempts that failed with a subprocess or I/O error
IoFailed(a) == a.run = "raised" \/ a.move \in {"raised", "raised_partway"}

\* C25: add_metadata makes at most 3 attempts and goes on to the next one
\* after an attempt that failed with a subprocess or I/O error; the original
\* is replaced only after an attempt whose rewritten file exists with at
\* least 1000 bytes; and when it returns false the original is unmodified
C25_AddMetadata ==
  /\ Len(amHist) <= 3
  /\ (amRet = "false" /\ IoFailed(amHist[Len(amHist)])) => Len(amHist) = 3
  /\ amOrig # "original" =>
       \E i \in DOMAIN amHist : amHist[i].temp = "valid" /\ amHist[i].move # "none"
  /\ amRet = "false" => amOrig = "original"

----------------------------------------------------------------------------
(* Claims about the status display, checked under SpecDisplayFair *)

InCall(t) == dispAt[t].at # "idle"

\* a thread waits for the lock that it holds itself
WaitsForItself(t) == dispAt[t].at \in {"lock", "upd_lock"} /\ dispLock = t

\* C26: every call of set_value, set_multiple, update or finish returns, having
\* rendered at most once: no thread ever waits for the display's lock while
\* holding it, and a thread that is in a call is eventually out of it
C26_CallsReturn ==
  /\ [](\A t \in DOMAIN dispAt : ~WaitsForItself(t) /\ dispAt[t].renders <= 1)
  /\ \A t \in DispThreads : (t \in DOMAIN dispAt /\ InCall(t)) ~> ~InCall(t)

----------------------------------------------------------------------------
(* Claims about the database connection, checked under SpecConn *)

\* a thread's get_connection call has just returned a connection
Received(t) ==
  gcAt[t].op = "get_connection" /\ gcAt[t].at = "idle" /\ gcAt[t].got # 0

\* C27: between two close_connections calls at most one connection is
\* opened; a connection a caller has received is the one the global holds or
\* one that was closed since; close_connections raises nothing, also with
\* nothing open; and a connection opened after a close is a new one
C27_OneConnection ==
  /\ Cardinality(sinceClose) <= 1
  /\ \A t \in DOMAIN gcAt :
       Received(t) => (gcAt[t].got = _connection \/ gcAt[t].got \in closed)
  /\ \A t \in DOMAIN gcAt : gcAt[t].got # -1
  /\ _connection # 0 => _connection \notin closed \/ \E t \in DOMAIN gcAt : gcAt[t].at = "clear"

----------------------------------------------------------------------------
(* Specifications *)

\* construction of a Manager from every bounded (host, api_key, environment)
InitCtor == CtorInit /\ CvIdle /\ MgrInit /\ CliIdle /\ DiscIdle /\ SecIdle /\ PoolIdle /\ WdIdle /\ MainIdle /\ IdIdle /\ SdIdle /\ IxIdle /\ AmIdle /\ DispIdle /\ GcIdle

SpecCtor == InitCtor /\ [][Construct]_vars

\* conversion of every bounded (Compose document, app name)
InitConvert == CtorIdle /\ CvInit /\ MgrInit /\ CliIdle /\ DiscIdle /\ SecIdle /\ PoolIdle /\ WdIdle /\ MainIdle /\ IdIdle /\ SdIdle /\ IxIdle /\ AmIdle /\ DispIdle /\ GcIdle

SpecConvert == InitConvert /\ [][Convert]_vars

\* a constructed Manager and its AI Helper, called in any order
Init == CtorIdle /\ CvIdle /\ MgrInit /\ CliIdle /\ DiscIdle /\ SecIdle /\ PoolIdle /\ WdIdle /\ MainIdle /\ IdIdle /\ SdIdle /\ IxIdle /\ AmIdle /\ DispIdle /\ GcIdle

Next == MgrNext

Spec == Init /\ [][Next]_vars

\* one run of the CLI delete command for every args and every environment
InitCli == CtorIdle /\ CvIdle /\ MgrInit /\ CliInit /\ DiscIdle /\ SecIdle /\ PoolIdle /\ WdIdle /\ MainIdle /\ IdIdle /\ SdIdle /\ IxIdle /\ AmIdle /\ DispIdle /\ GcIdle

SpecCli == InitCli /\ [][CliNext]_vars

\* one combined discovery for every bounded pair of reports
InitDisc == CtorIdle /\ CvIdle /\ MgrInit /\ CliIdle /\ DiscInit /\ SecIdle /\ PoolIdle /\ WdIdle /\ MainIdle /\ IdIdle /\ SdIdle /\ IxIdle /\ AmIdle /\ DispIdle /\ GcIdle

SpecDisc == InitDisc /\ [][DiscoverAllMethods]_vars

\* Counter and Indexer runs on one section, in any order and any number
InitSection == CtorIdle /\ CvIdle /\ MgrInit /\ CliIdle /\ DiscIdle /\ SecInit /\ PoolIdle /\ WdIdle /\ MainIdle /\ IdIdle /\ SdIdle /\ IxIdle /\ AmIdle /\ DispIdle /\ GcIdle

SpecSection == InitSection /\ [][SecNext]_vars

\* SectionProcessor.start(), threads scheduled in any order
InitPool == CtorIdle /\ CvIdle /\ MgrInit /\ CliIdle /\ DiscIdle /\ SecIdle /\ PoolInit /\ WdIdle /\ MainIdle /\ IdIdle /\ SdIdle /\ IxIdle /\ AmIdle /\ DispIdle /\ GcIdle

SpecPool == InitPool /\ [][PoolNext]_vars

\* the same, where the main thread and every worker thread keep running
SpecPoolFair ==
  /\ InitPool
  /\ [][PoolNext]_vars
  /\ WF_vars(PoolMain)
  /\ \A t \in SectionIds : WF_vars(SectionThread(t))

\* one watchdog_timer call, its timers, its caller and the monitored operation
InitWatchdog ==
  CtorIdle /\ CvIdle /\ MgrInit /\ CliIdle /\ DiscIdle /\ SecIdle /\ PoolIdle /\ WdInit /\ MainIdle /\ IdIdle /\ SdIdle /\ IxIdle /\ AmIdle /\ DispIdle /\ GcIdle

SpecWatchdog == InitWatchdog /\ [][WdNext]_vars

\* one run of main(); the main thread keeps running while it can, and
\* nothing says that the server is ever shut down
InitMain ==
  CtorIdle /\ CvIdle /\ MgrInit /\ CliIdle /\ DiscIdle /\ SecIdle /\ PoolIdle /\ WdIdle /\ MainInit /\ IdIdle /\ SdIdle /\ IxIdle /\ AmIdle /\ DispIdle /\ GcIdle

SpecMainFair == InitMain /\ [][MainNext]_vars /\ WF_vars(MainThread)

\* generate_file_id() calls on one file that is modified in between
InitFileId ==
  CtorIdle /\ CvIdle /\ MgrInit /\ CliIdle /\ DiscIdle /\ SecIdle /\ PoolIdle /\ WdIdle /\ MainIdle /\ IdInit /\ SdIdle /\ IxIdle /\ AmIdle /\ DispIdle /\ GcIdle

SpecFileId == InitFileId /\ [][IdNext]_vars

\* one discover_sections call for every bounded tree and depth
InitSections ==
  CtorIdle /\ CvIdle /\ MgrInit /\ CliIdle /\ DiscIdle /\ SecIdle /\ PoolIdle /\ WdIdle /\ MainIdle /\ IdIdle /\ SdInit /\ IxIdle /\ AmIdle /\ DispIdle /\ GcIdle

SpecSections == InitSections /\ [][DiscoverSections]_vars

\* the Indexer's loop over the files of one section, for every bounded section
InitIndex ==
  CtorIdle /\ CvIdle /\ MgrInit /\ CliIdle /\ DiscIdle /\ SecIdle /\ PoolIdle /\ WdIdle /\ MainIdle /\ IdIdle /\ SdIdle /\ IxInit /\ AmIdle /\ DispIdle /\ GcIdle

SpecIndex == InitIndex /\ [][IxNext]_vars

\* one add_metadata call, for everything ffmpeg and the file system can do
InitMetadata ==
  CtorIdle /\ CvIdle /\ MgrInit /\ CliIdle /\ DiscIdle /\ SecIdle /\ PoolIdle /\ WdIdle /\ MainIdle /\ IdIdle /\ SdIdle /\ IxIdle /\ AmInit /\ DispIdle /\ GcIdle

SpecMetadata == InitMetadata /\ [][AmNext]_vars

\* threads calling the methods of one StatusDisplay; a thread that can take a
\* step is scheduled sooner or later
InitDisplay ==
  CtorIdle /\ CvIdle /\ MgrInit /\ CliIdle /\ DiscIdle /\ SecIdle /\ PoolIdle /\ WdIdle /\ MainIdle /\ IdIdle /\ SdIdle /\ IxIdle /\ AmIdle /\ DispInit /\ GcIdle

SpecDisplayFair ==
  /\ InitDisplay
  /\ [][DispNext]_vars
  /\ \A t \in DispThreads : WF_vars(DispThread(t))

\* threads calling get_connection and close_connections
InitConn ==
  CtorIdle /\ CvIdle /\ MgrInit /\ CliIdle /\ DiscIdle /\ SecIdle /\ PoolIdle /\ WdIdle /\ MainIdle /\ IdIdle /\ SdIdle /\ IxIdle /\ AmIdle /\ DispIdle /\ GcInit

SpecConn == InitConn /\ [][GcNext]_vars

====
